---- MODULE Spec2Model ----
(***************************************************************************)
(* Model of the document redline engine of kashamit951/nego:               *)
(*   - the Mutator, DocxRedlineEditorService.apply_decisions               *)
(*     (src/app/services/redline_editor.py),                               *)
(*   - the Extractor, CorpusParserService._parse_docx                      *)
(*     (src/app/services/corpus_parser.py),                                *)
(*   - the summary record of the route strategy_redline_apply_upload       *)
(*     (src/app/api/routes.py).                                            *)
(*                                                                         *)
(* Texts are sequences of one-character strings.  An XML element is a      *)
(* record [tag, id, text, cid, kids]: id > 0 is the identity of a Python   *)
(* Element object that the code keeps a reference to (paragraphs and       *)
(* tracked nodes of the parsed input); elements nobody holds a reference   *)
(* to carry id 0.  cid is the w:id attribute of comment markers and of     *)
(* w:comment entries (NoId when the element has none).                     *)
(***************************************************************************)
EXTENDS Integers, Sequences, FiniteSets, TLC

\* ------------------------------------------------------------------ texts

NoId == 0 - 1

RECURSIVE FlattenFrom(_, _, _)
FlattenFrom(ss, k, n) ==
    IF k > n THEN <<>> ELSE ss[k] \o FlattenFrom(ss, k + 1, n)

\* the concatenation of the sequences of ss
FlattenSeq(ss) == FlattenFrom(ss, 1, Len(ss))

NL == "\n"

IsSpace(c) == c \in {" ", NL}

RECURSIVE LStrip(_)
LStrip(s) ==
    IF s = <<>> THEN <<>>
    ELSE IF IsSpace(Head(s)) THEN LStrip(Tail(s)) ELSE s

RECURSIVE RStrip(_)
RStrip(s) ==
    IF s = <<>> THEN <<>>
    ELSE IF IsSpace(s[Len(s)]) THEN RStrip(SubSeq(s, 1, Len(s) - 1)) ELSE s

\* str.strip()
Strip(s) == RStrip(LStrip(s))

\* " ".join(s.split()): runs of whitespace become one blank, none at the ends
RECURSIVE SquashBlanks(_)
SquashBlanks(s) ==
    IF Len(s) < 2 THEN s
    ELSE IF IsSpace(s[1]) /\ IsSpace(s[2]) THEN SquashBlanks(Tail(s))
    ELSE <<s[1]>> \o SquashBlanks(Tail(s))

JoinSplit(s) == SquashBlanks(Strip(s))

LowerChar(c) == IF c = "A" THEN "a" ELSE IF c = "B" THEN "b" ELSE c

\* str.lower()
Lower(s) == [k \in 1..Len(s) |-> LowerChar(s[k])]

\* _normalize_text: " ".join((text or "").split()).strip().lower()
normalize_text(s) == Lower(Strip(JoinSplit(s)))

\* needle in hay
Contains(hay, needle) ==
    \E k \in 0..(Len(hay) - Len(needle)) :
        SubSeq(hay, k + 1, k + Len(needle)) = needle

\* SequenceMatcher.find_longest_match without junk: the longest common block,
\* and among the longest the one starting earliest in a, then earliest in b.
Blocks(a, b) ==
    {t \in (1..Len(a)) \X (1..Len(b)) \X (1..Len(a)) :
        /\ t[1] + t[3] - 1 <= Len(a)
        /\ t[2] + t[3] - 1 <= Len(b)
        /\ \A k \in 0..(t[3] - 1) : a[t[1] + k] = b[t[2] + k]}

LongestMatch(bs) ==
    CHOOSE t \in bs :
        \A u \in bs :
            \/ u[3] < t[3]
            \/ u[3] = t[3] /\ t[1] < u[1]
            \/ u[3] = t[3] /\ t[1] = u[1] /\ t[2] <= u[2]

\* sum of the sizes of SequenceMatcher.get_matching_blocks()
RECURSIVE MatchSize(_, _)
MatchSize(a, b) ==
    LET bs == Blocks(a, b)
        t == LongestMatch(bs)
    IN  IF bs = {} THEN 0
        ELSE t[3]
            + MatchSize(SubSeq(a, 1, t[1] - 1), SubSeq(b, 1, t[2] - 1))
            + MatchSize(SubSeq(a, t[1] + t[3], Len(a)), SubSeq(b, t[2] + t[3], Len(b)))

\* _similarity: SequenceMatcher(None, a, b).ratio() = 2*M / (len(a)+len(b)),
\* kept as the exact fraction <<numerator, denominator>>; 0.0 for an empty text.
similarity(a, b) ==
    IF a = <<>> \/ b = <<>> THEN <<0, 1>>
    ELSE <<2 * MatchSize(a, b), Len(a) + Len(b)>>

\* comparisons of fractions with positive denominators
FracGE(x, y) == x[1] * y[2] >= y[1] * x[2]
FracGT(x, y) == x[1] * y[2] > y[1] * x[2]
FracMax(x, y) == IF FracGE(x, y) THEN x ELSE y
Pct(n) == <<n, 100>>

\* --------------------------------------------------------------- elements

\* an element: its tag, the identity of the node, the text or author it
\* holds, its w:id, the parent-comment id it records (NoId when it records
\* none) and its children
Elem(tag, id, text, cid, kids) ==
    [tag |-> tag, id |-> id, text |-> text, cid |-> cid, parent |-> NoId, kids |-> kids]

T(txt) == Elem("t", 0, txt, NoId, <<>>)
DelText(txt) == Elem("delText", 0, txt, NoId, <<>>)
R(txt) == Elem("r", 0, <<>>, NoId, <<T(txt)>>)
DelR(txt) == Elem("r", 0, <<>>, NoId, <<DelText(txt)>>)
Ins(id, kids) == Elem("ins", id, <<>>, NoId, kids)
Del(id, kids) == Elem("del", id, <<>>, NoId, kids)
RangeStart(cid) == Elem("commentRangeStart", 0, <<>>, cid, <<>>)
RangeEnd(cid) == Elem("commentRangeEnd", 0, <<>>, cid, <<>>)
RefRun(cid) ==
    Elem("r", 0, <<>>, NoId, <<Elem("commentReference", 0, <<>>, cid, <<>>)>>)
P(id, kids) == Elem("p", id, <<>>, NoId, kids)
Body(paras) == Elem("body", 0, <<>>, NoId, paras)

\* Element.iter() without the element itself: all descendants, document order
RECURSIVE Descendants(_)
Descendants(n) ==
    FlattenSeq([k \in 1..Len(n.kids) |-> <<n.kids[k]>> \o Descendants(n.kids[k])])

\* Element.iter()
Iter(n) == <<n>> \o Descendants(n)

\* element.findall(".//w:<tag>", DOCX_NS)
FindAll(n, tag) == SelectSeq(Descendants(n), LAMBDA x : x.tag = tag)

Range(s) == {s[k] : k \in 1..Len(s)}

\* unique_ids: first occurrences, order kept
RECURSIVE Dedup(_)
Dedup(s) ==
    IF s = <<>> THEN <<>>
    ELSE LET d == Dedup(SubSeq(s, 1, Len(s) - 1))
         IN  IF s[Len(s)] \in Range(d) THEN d ELSE Append(d, s[Len(s)])

\* _collect_text: the w:t descendants with a text, joined and stripped
collect_text(n) ==
    LET ts == FindAll(n, "t")
    IN  Strip(FlattenSeq([k \in 1..Len(ts) |-> ts[k].text]))

\* _collect_deleted_text: the w:delText descendants with a text, joined and
\* stripped; the w:t text when the element holds no non-empty w:delText
collect_deleted_text(n) ==
    LET parts == SelectSeq(FindAll(n, "delText"), LAMBDA x : x.text # <<>>)
    IN  IF parts # <<>>
        THEN Strip(FlattenSeq([k \in 1..Len(parts) |-> parts[k].text]))
        ELSE collect_text(n)

IsMarker(x) == x.tag \in {"commentRangeStart", "commentReference"}

\* redline_editor._collect_comment_ids: the ids of the range-start and
\* reference markers of element.iter(), duplicates kept
collect_comment_ids(n) ==
    LET ms == SelectSeq(Iter(n), LAMBDA x : IsMarker(x) /\ x.cid # NoId)
    IN  [k \in 1..Len(ms) |-> ms[k].cid]

\* root.findall(".//w:p", DOCX_NS)
Paragraphs(root) == FindAll(root, "p")

\* the elements reachable from root (those _build_parent_map gives a parent)
Attached(root, id) ==
    LET all == Descendants(root)
    IN  \E k \in 1..Len(all) : all[k].id = id

\* _make_run
make_run(txt) == R(txt)

\* copy.deepcopy of an element: same content, new objects
RECURSIVE DeepCopy(_)
DeepCopy(n) ==
    [n EXCEPT !.id = 0, !.kids = [k \in 1..Len(n.kids) |-> DeepCopy(n.kids[k])]]

\* _replace_node on the parent of the element called id: the element is
\* removed and the replacement nodes are inserted at its index
RECURSIVE replace_node(_, _, _)
replace_node(n, id, repl) ==
    [n EXCEPT !.kids =
        FlattenSeq([k \in 1..Len(n.kids) |->
            IF n.kids[k].id = id THEN repl
            ELSE <<replace_node(n.kids[k], id, repl)>>])]

\* paragraph.append(x) for each x of more, on the paragraph called pid
RECURSIVE append_to(_, _, _)
append_to(n, pid, more) ==
    IF n.id = pid THEN [n EXCEPT !.kids = n.kids \o more]
    ELSE [n EXCEPT !.kids = [k \in 1..Len(n.kids) |-> append_to(n.kids[k], pid, more)]]

\* find_ancestor giving the first paragraph of the tree for an element that
\* is not in the tree
find_ancestor_or_first(n, id, enclosing) ==
    LET around == SelectSeq(FindAll(n, "p"), LAMBDA q :
                      \E k \in 1..Len(Descendants(q)) : Descendants(q)[k].id = id)
    IN  IF around # <<>> THEN around[Len(around)].id
        ELSE IF FindAll(n, "p") = <<>> THEN 0
        ELSE FindAll(n, "p")[1].id

\* _find_ancestor(node, parent_map, "p"): the nearest enclosing paragraph of
\* the element called id, 0 when it has none (or is not attached)
RECURSIVE find_ancestor(_, _, _)
find_ancestor(n, id, enclosing) ==
    LET here == IF n.tag = "p" THEN n.id ELSE enclosing
        hits == {r \in {IF n.kids[k].id = id THEN here
                        ELSE find_ancestor(n.kids[k], id, here) : k \in 1..Len(n.kids)} :
                    r # 0}
    IN  IF hits = {} THEN 0 ELSE CHOOSE r \in hits : TRUE

\* ---------------------------------------------------- Mutator: resolution

\* The live content of the element called id: the element of the tree, or,
\* once it was removed, the removed object (which keeps its children).
Elements(root, detached) ==
    Descendants(root) \o FlattenSeq([k \in 1..Len(detached) |-> Iter(detached[k])])

Pick(all, id) == all[CHOOSE k \in 1..Len(all) : all[k].id = id]

Lookup(root, detached, id) == Pick(Elements(root, detached), id)

\* _collect_tracked_nodes: per paragraph of findall(".//w:p"), its w:ins
\* descendants, then its w:del descendants
collect_tracked_nodes(root) ==
    LET ps == Paragraphs(root)
    IN  FlattenSeq([k \in 1..Len(ps) |-> FindAll(ps[k], "ins") \o FindAll(ps[k], "del")])

\* self._collect_text(node) or self._collect_deleted_text(node), normalized
NodeText(n) ==
    LET own == collect_text(n)
    IN  normalize_text(IF own # <<>> THEN own ELSE collect_deleted_text(n))

IndexedFloor == 75
BestFloor == 45
SubstringBoost == 92

\* max(score, boost) when one text is a substring of the other
Boosted(score, a, b, boost) ==
    IF Contains(a, b) \/ Contains(b, a) THEN FracMax(score, Pct(boost)) ELSE score

\* the score of the scan without the raise for substrings
ScoreWithoutBoost(node_text, source_text) ==
    IF node_text = <<>> THEN <<0, 1>> ELSE similarity(node_text, source_text)

\* the score of one node in the scan over all tracked nodes (lines 225-230);
\* a node without text is passed over
ScoreOfText(node_text, source_text) ==
    IF node_text = <<>> THEN <<0, 1>>
    ELSE Boosted(similarity(node_text, source_text), node_text, source_text, SubstringBoost)

ScanScores(nodes, source_text) ==
    [k \in 1..Len(nodes) |-> ScoreOfText(NodeText(nodes[k]), source_text)]

\* the loop of lines 224-233: the first place whose score is the best one (a
\* node replaces the best only with a strictly larger score); 0 for none
FirstBest(score) ==
    LET cand == {k \in 1..Len(score) : FracGT(score[k], <<0, 1>>)}
        tops == {k \in cand : \A j \in cand : FracGE(score[k], score[j])}
    IN  IF cand = {} THEN 0 ELSE CHOOSE k \in tops : \A j \in tops : k <= j

\* lines 234-235: the best node, when its score reaches the floor
AtFloor(score, best) ==
    IF best # 0 /\ FracGE(score[best], Pct(BestFloor)) THEN best ELSE 0

BestScan(nodes, source_text) ==
    AtFloor(ScanScores(nodes, source_text), FirstBest(ScanScores(nodes, source_text)))

\* line 212
IndexedPlace(nodes, d) ==
    IF 0 <= d.source_index /\ d.source_index < Len(nodes) THEN d.source_index + 1 ELSE 0

\* lines 215-216
IndexedMatches(node_text, source_text) ==
    node_text # <<>> /\ FracGE(similarity(node_text, source_text), Pct(IndexedFloor))

\* ResolveBy ending on the indexed node when the scan finds none
ResolveByIndexAtLast(nodes, indexed, source_text, best) ==
    IF nodes = <<>> THEN 0
    ELSE IF indexed # 0 /\ source_text = <<>> THEN indexed
    ELSE IF indexed # 0 /\ IndexedMatches(NodeText(nodes[indexed]), source_text) THEN indexed
    ELSE IF source_text # <<>> /\ best # 0 THEN best
    ELSE indexed

ResolveBy(nodes, indexed, source_text, best) ==
    IF nodes = <<>> THEN 0
    ELSE IF indexed # 0 /\ source_text = <<>> THEN indexed
    ELSE IF indexed # 0 /\ IndexedMatches(NodeText(nodes[indexed]), source_text) THEN indexed
    ELSE IF source_text # <<>> THEN best
    ELSE 0

\* _resolve_tracked_node; nodes are the tracked elements (live content), the
\* result is the 1-based place of the resolved node in nodes, 0 for None
resolve_tracked_node(nodes, d) ==
    ResolveBy(nodes, IndexedPlace(nodes, d), normalize_text(d.source_text),
              BestScan(nodes, normalize_text(d.source_text)))

\* _build_paragraph_spans: <<paragraph id, start, end>> of every paragraph
\* with a non-empty text, the cursor moving by the text's length plus 2
RECURSIVE build_paragraph_spans(_, _)
build_paragraph_spans(paragraphs, cursor) ==
    IF paragraphs = <<>> THEN <<>>
    ELSE LET clean == Strip(JoinSplit(collect_text(Head(paragraphs))))
         IN  IF clean = <<>> THEN build_paragraph_spans(Tail(paragraphs), cursor)
             ELSE <<[para |-> Head(paragraphs).id, start |-> cursor,
                     end |-> cursor + Len(clean)]>>
                  \o build_paragraph_spans(Tail(paragraphs), cursor + Len(clean) + 2)

\* _find_paragraph_by_comment_id: the first paragraph holding a range-start
\* or reference marker with the wanted id; 0 for None
find_paragraph_by_comment_id(root, cid) ==
    LET ps == SelectSeq(Paragraphs(root),
                  LAMBDA p : \E k \in 1..Len(Iter(p)) :
                      IsMarker(Iter(p)[k]) /\ Iter(p)[k].cid = cid)
    IN  IF cid = NoId \/ ps = <<>> THEN 0 ELSE ps[1].id

Abs(x) == IF x < 0 THEN 0 - x ELSE x
Min2(x, y) == IF x <= y THEN x ELSE y
Clamp(lo, hi, x) == IF x < lo THEN lo ELSE IF x > hi THEN hi ELSE x

NearLimit == 200
MatchFloor == 90
MatchBoost == 96
ConfidentFloor == 95
ConfidentGap == 5

SpanDistance(sp, pos) == Min2(Abs(pos - sp.start), Abs(pos - sp.end))

\* the first span nearest to the position
Nearest(spans, pos) ==
    CHOOSE k \in 1..Len(spans) :
        \A j \in 1..Len(spans) :
            \/ SpanDistance(spans[k], pos) < SpanDistance(spans[j], pos)
            \/ SpanDistance(spans[k], pos) = SpanDistance(spans[j], pos) /\ k <= j

Last(S) == CHOOSE k \in S : \A j \in S : j <= k

PositionChoice(spans, pos, inside, near) ==
    IF inside # {} THEN spans[Last(inside)].para
    ELSE IF SpanDistance(spans[near], pos) <= NearLimit THEN spans[near].para
    ELSE 0

\* lines 251-270: the paragraph whose span contains the position, else the
\* first nearest one when it is at most 200 characters away
ByPosition(spans, pos) ==
    PositionChoice(spans, pos,
                   {k \in 1..Len(spans) : spans[k].start <= pos /\ pos <= spans[k].end},
                   Nearest(spans, pos))

\* the score of one paragraph text against the target (lines 279-281)
ParaScore(text, target) ==
    IF text = <<>> THEN <<0, 1>>
    ELSE Boosted(similarity(text, target), text, target, MatchBoost)

FracEQ(x, y) == x[1] * y[2] = y[1] * x[2]

\* matches.sort(key=score, reverse=True): stable, best score first; ms are
\* [para, score]
SortByScore(ms) ==
    LET rank(k) == Cardinality({j \in 1..Len(ms) :
                        \/ FracGT(ms[j].score, ms[k].score)
                        \/ FracEQ(ms[j].score, ms[k].score) /\ j < k}) + 1
    IN  [r \in 1..Len(ms) |-> ms[CHOOSE k \in 1..Len(ms) : rank(k) = r]]

\* top_score - second_score >= 0.05, on fractions
GapAtLeast(x, y, pct) == (x[1] * y[2] - y[1] * x[2]) * 100 >= pct * x[2] * y[2]

\* lines 284-294, on the matches sorted by score
TextChoice(ms, sorted, has_index, source_index) ==
    IF Len(ms) = 0 THEN 0
    ELSE IF Len(ms) = 1 THEN ms[1].para
    ELSE IF /\ FracGE(sorted[1].score, Pct(ConfidentFloor))
            /\ GapAtLeast(sorted[1].score, sorted[2].score, ConfidentGap)
    THEN sorted[1].para
    ELSE IF has_index THEN sorted[Clamp(0, Len(ms) - 1, source_index) + 1].para
    ELSE 0

\* lines 274-283: the paragraphs with a text that score 0.9 or more
Matches(paras, target) ==
    SelectSeq([k \in 1..Len(paras) |->
                  [para |-> paras[k].id,
                   score |-> ParaScore(normalize_text(collect_text(paras[k])), target)]],
              LAMBDA m : FracGE(m.score, Pct(MatchFloor)))

\* lines 273-294: the text match used when no position is given
ByText(paras, target, has_index, source_index) ==
    TextChoice(Matches(paras, target), SortByScore(Matches(paras, target)),
               has_index, source_index)

\* ReplyChoice with the index taken whether a position is given or not
ReplyChoiceWhateverPosition(spans, d, has_index, byPos, byText) ==
    IF byPos # 0 THEN byPos
    ELSE IF byText # 0 THEN byText
    ELSE IF has_index /\ spans # <<>>
    THEN spans[Clamp(0, Len(spans) - 1, d.source_index) + 1].para
    ELSE 0

ReplyChoice(spans, d, has_index, byPos, byText) ==
    IF byPos # 0 THEN byPos
    ELSE IF byText # 0 THEN byText
    ELSE IF ~d.has_position /\ has_index /\ spans # <<>>
    THEN spans[Clamp(0, Len(spans) - 1, d.source_index) + 1].para
    ELSE 0

\* line 250
Target(d) ==
    normalize_text(IF d.source_context_text # <<>> THEN d.source_context_text
                   ELSE d.source_text)

\* _resolve_reply_paragraph; paras are all_paragraphs (live content), the
\* result is a paragraph id, 0 for None.  has_index is FALSE where the caller
\* passes no source_index.
resolve_reply_paragraph(paras, spans, d, has_index) ==
    ReplyChoice(spans, d, has_index,
                IF d.has_position /\ spans # <<>> THEN ByPosition(spans, d.source_position)
                ELSE 0,
                IF ~d.has_position /\ Target(d) # <<>>
                THEN ByText(paras, Target(d), has_index, d.source_index)
                ELSE 0)

\* ------------------------------------------------ Mutator: one decision

Actions == {"accept", "modify", "reject", "reply"}

Edited(root, detached, error) == [root |-> root, detached |-> detached, error |-> error]

\* the element is taken out of the tree (the object stays), repl is put at
\* its index
Swap(root, detached, node, repl) ==
    Edited(replace_node(root, node.id, repl), Append(detached, node), FALSE)

RunOrNothing(text) == IF text # <<>> THEN <<make_run(text)>> ELSE <<>>

Or(a, b) == IF a # <<>> THEN a ELSE b

\* Replacement with accept on an insertion dropping the content with the wrapper
ReplacementDropsAccepted(node, action, modified_text) ==
    IF node.tag = "ins"
    THEN IF action = "reject" \/ action = "accept" THEN <<>>
         ELSE <<make_run(Or(modified_text, collect_text(node)))>>
    ELSE IF action = "accept" THEN <<>>
         ELSE IF action = "reject" THEN RunOrNothing(collect_deleted_text(node))
         ELSE RunOrNothing(Strip(Or(modified_text, collect_deleted_text(node))))

\* Replacement with reject on an insertion keeping the content as plain runs
ReplacementKeepsRejected(node, action, modified_text) ==
    IF node.tag = "ins"
    THEN IF action = "reject" \/ action = "accept"
         THEN [k \in 1..Len(node.kids) |-> DeepCopy(node.kids[k])]
         ELSE <<make_run(Or(modified_text, collect_text(node)))>>
    ELSE IF action = "accept" THEN <<>>
         ELSE IF action = "reject" THEN RunOrNothing(collect_deleted_text(node))
         ELSE RunOrNothing(Strip(Or(modified_text, collect_deleted_text(node))))

\* Replacement with reject on a deletion restoring nothing
ReplacementLosesDeleted(node, action, modified_text) ==
    IF node.tag = "ins"
    THEN IF action = "reject" THEN <<>>
         ELSE IF action = "accept" THEN [k \in 1..Len(node.kids) |-> DeepCopy(node.kids[k])]
         ELSE <<make_run(Or(modified_text, collect_text(node)))>>
    ELSE IF action = "accept" \/ action = "reject" THEN <<>>
         ELSE RunOrNothing(Strip(Or(modified_text, collect_deleted_text(node))))

\* Replacement with modify on a deletion writing modified_text alone
ReplacementOfModifiedTextOnly(node, action, modified_text) ==
    IF node.tag = "ins"
    THEN IF action = "reject" THEN <<>>
         ELSE IF action = "accept" THEN [k \in 1..Len(node.kids) |-> DeepCopy(node.kids[k])]
         ELSE <<make_run(Or(modified_text, collect_text(node)))>>
    ELSE IF action = "accept" THEN <<>>
         ELSE IF action = "reject" THEN RunOrNothing(collect_deleted_text(node))
         ELSE RunOrNothing(Strip(modified_text))

\* lines 341-365, by tag and action
Replacement(node, action, modified_text) ==
    IF node.tag = "ins"
    THEN IF action = "reject" THEN <<>>
         ELSE IF action = "accept" THEN [k \in 1..Len(node.kids) |-> DeepCopy(node.kids[k])]
         ELSE <<make_run(Or(modified_text, collect_text(node)))>>
    ELSE IF action = "accept" THEN <<>>
         ELSE IF action = "reject" THEN RunOrNothing(collect_deleted_text(node))
         ELSE RunOrNothing(Strip(Or(modified_text, collect_deleted_text(node))))

\* _apply_single_decision on the tracked element node.  The result is
\* [root, detached, error]: the tree, the removed objects, and whether
\* ValueError("Unsupported action") was raised.
apply_single_decision(root, detached, node, action, modified_text) ==
    IF ~Attached(root, node.id) THEN Edited(root, detached, FALSE)
    ELSE IF action \notin Actions THEN Edited(root, detached, TRUE)
    ELSE IF action = "reply" THEN Edited(root, detached, FALSE)
    ELSE Swap(root, detached, node, Replacement(node, action, modified_text))

Reply(para, note, ids) == [para |-> para, note |-> note, ids |-> ids]

\* st = [root, detached, pending, error] is the state of the loop; env holds
\* what is computed once before the loop: tracked (ids of tracked_nodes),
\* paras (ids of all_paragraphs), spans (paragraph_spans) and has_parts
\* (comments_parts is not empty).

PickAll(all, ids) == [k \in 1..Len(ids) |-> Pick(all, ids[k])]

TrackedNodes(st, env) == PickAll(Elements(st.root, st.detached), env.tracked)

PlaceToId(ids, at) == IF at = 0 THEN 0 ELSE ids[at]

\* line 107: the id of the tracked element decision d resolves to, 0 for None
resolved_node(st, env, d) ==
    PlaceToId(env.tracked, resolve_tracked_node(TrackedNodes(st, env), d))

\* lines 86-91 and 112-117: the paragraph found by source_comment_id
by_comment_id(st, env, d) ==
    IF env.has_parts /\ d.source_comment_id # NoId
    THEN find_paragraph_by_comment_id(st.root, d.source_comment_id)
    ELSE 0

Target2(para, ids) == [para |-> para, ids |-> ids]

IdsOf(all, id) == IF id = 0 THEN <<>> ELSE collect_comment_ids(Pick(all, id))

OwnerOf(root, nid) == IF nid = 0 THEN 0 ELSE find_ancestor(root, nid, 0)

TargetChoice(all, d, nid, byId, byIndex, noIndex, owner) ==
    IF d.source_type = "comment"
    THEN IF byId # 0 THEN Target2(byId, <<d.source_comment_id>>)
         ELSE Target2(byIndex, IdsOf(all, byIndex))
    ELSE IF d.action = "reply"
    THEN IF byId # 0 THEN Target2(byId, <<d.source_comment_id>>)
         ELSE IF noIndex # 0
         THEN Target2(noIndex, Dedup(IdsOf(all, noIndex) \o IdsOf(all, nid)))
         ELSE Target2(owner, Dedup(IdsOf(all, owner) \o IdsOf(all, nid)))
    ELSE IF nid = 0 THEN Target2(byIndex, IdsOf(all, byIndex))
    ELSE Target2(owner, Dedup(IdsOf(all, nid) \o IdsOf(all, owner)))

\* The reply of decision d as the loop queues it (the note aside):
\* [para, ids], para = 0 when the decision finds no paragraph; nid is the
\* tracked element the decision resolved to.
\*   comment source (lines 86-105): the marker's paragraph, else
\*     _resolve_reply_paragraph with source_index;
\*   redline reply (lines 112-137): the marker's paragraph, else
\*     _resolve_reply_paragraph without source_index, else the paragraph of
\*     the resolved node;
\*   redline edit without a node (lines 140-156): _resolve_reply_paragraph
\*     with source_index;
\*   redline edit of a node (lines 159-176): the paragraph of the node.
reply_target(st, env, d, nid) ==
    TargetChoice(Elements(st.root, st.detached), d, nid,
        by_comment_id(st, env, d),
        resolve_reply_paragraph(PickAll(Elements(st.root, st.detached), env.paras),
                                env.spans, d, TRUE),
        resolve_reply_paragraph(PickAll(Elements(st.root, st.detached), env.paras),
                                env.spans, d, FALSE),
        OwnerOf(st.root, nid))

\* Queued without the test of the note
QueuedWhateverNote(pending, note, target) ==
    IF target.para # 0
    THEN Append(pending, Reply(target.para, note, target.ids))
    ELSE pending

Queued(pending, note, target) ==
    IF note # <<>> /\ target.para # 0
    THEN Append(pending, Reply(target.para, note, target.ids))
    ELSE pending

Processed(st, d, nid, queued, done) ==
    IF d.source_type \notin {"redline", "comment"} THEN st
    ELSE IF d.source_type = "comment" \/ d.action = "reply" \/ nid = 0
    THEN [st EXCEPT !.pending = queued]
    ELSE IF done.error
    THEN [st EXCEPT !.root = done.root, !.detached = done.detached, !.error = TRUE]
    ELSE [root |-> done.root, detached |-> done.detached, pending |-> queued,
          error |-> FALSE]

ProcessAt(st, env, d, nid) ==
    Processed(st, d, nid,
              Queued(st.pending, Strip(d.reply_comment), reply_target(st, env, d, nid)),
              apply_single_decision(st.root, st.detached,
                                    Lookup(st.root, st.detached, nid),
                                    d.action, d.modified_text))

\* One pass of the loop of apply_decisions (lines 78-176) for decision d.
process_decision(st, env, d) == ProcessAt(st, env, d, resolved_node(st, env, d))

\* ------------------------------------------------------------ the package

\* A package is [zip_ok, entries]; an entry is [name, data]; the bytes of an
\* entry are [kind, form, tree]: kind "xml" for bytes ET.fromstring parses
\* (tree is what it returns), kind "bin" for bytes it rejects; form "et" for
\* bytes as ET.tostring(..., encoding="utf-8", xml_declaration=True) writes
\* them (its own declaration and ns0: prefixes), form "raw" for any other
\* spelling of the same markup.
Bytes(kind, form, tree) == [kind |-> kind, form |-> form, tree |-> tree]
Blob(tag) == Bytes("bin", "raw", Elem(tag, 0, <<>>, NoId, <<>>))
Entry(name, data) == [name |-> name, data |-> data]

DocumentName == "word/document.xml"

\* ET.tostring(tree, encoding="utf-8", xml_declaration=True)
tostring(tree) == Bytes("xml", "et", tree)

Parses(data) == data.kind = "xml"

\* ET.fromstring(bytes), on bytes that parse
fromstring(data) == data.tree

\* zipfile.ZipFile.namelist()
namelist(pkg) == [k \in 1..Len(pkg.entries) |-> pkg.entries[k].name]

\* zipfile.ZipFile.read(name): the entry called name
read(pkg, name) ==
    (CHOOSE e \in Range(pkg.entries) : e.name = name).data

\* the order of str.sort() on the part names of the model
NameRank(name) ==
    CASE name = "word/comments.xml" -> 1
      [] name = "word/comments2.xml" -> 2
      [] name = "word/commentsExtended.xml" -> 3
      [] OTHER -> 4

SortNames(names) ==
    LET rank(k) == Cardinality({j \in 1..Len(names) : NameRank(names[j]) < NameRank(names[k])}) + 1
    IN  [r \in 1..Len(names) |-> names[CHOOSE k \in 1..Len(names) : rank(k) = r]]

\* name.startswith("word/comments") and name.endswith(".xml")
EditorCommentName(name) ==
    name \in {"word/comments.xml", "word/comments2.xml", "word/commentsExtended.xml"}

\* re.fullmatch(r"word/comments(?:\d+)?\.xml", name)
ParserCommentName(name) == name \in {"word/comments.xml", "word/comments2.xml"}

\* lines 48-53: comment_part_names, sorted
comment_part_names(pkg) ==
    SortNames(SelectSeq(namelist(pkg), EditorCommentName))

\* lines 60-71: comments_parts, the parts that parse, in name order, each as
\* [name, tree]; comments_root is the tree of the first one
comments_parts_of(pkg) ==
    LET ok == SelectSeq(comment_part_names(pkg), LAMBDA nm : Parses(read(pkg, nm)))
    IN  [k \in 1..Len(ok) |-> [name |-> ok[k], tree |-> fromstring(read(pkg, ok[k]))]]

\* ------------------------------------------------- Mutator: the replies

CommentsOf(croot) == FindAll(croot, "comment")

Max0(S) == IF S = {} THEN NoId ELSE CHOOSE x \in S : \A y \in S : y <= x

\* _next_comment_id: the largest w:id of the part's comments, plus one
next_comment_id(croot) ==
    Max0({CommentsOf(croot)[k].cid : k \in 1..Len(CommentsOf(croot))} \ {NoId}) + 1

\* _first_matching_comment_id: the id of the first comment of the part whose
\* id is among the candidates; NoId for None
first_matching_comment_id(croot, candidate_ids) ==
    LET hit == SelectSeq(CommentsOf(croot),
                   LAMBDA c : c.cid # NoId /\ c.cid \in Range(candidate_ids))
    IN  IF hit = <<>> THEN NoId ELSE hit[1].cid

\* author="Nego User" of line 403
ReplyAuthor == <<"N">>

\* _make_comment_node: w:comment with the id, the author (the text field of a
\* comment element holds its w:author) and a paragraph holding the text; the
\* parent_comment_id argument is not written to the element, which records
\* no parent
make_comment_node(comment_id, text, parent_comment_id) ==
    Elem("comment", 0, ReplyAuthor, comment_id, <<P(0, <<R(text)>>)>>)

\* _attach_comment_reference: range start, range end and a reference run
\* appended to the paragraph
attach_comment_reference(root, para, comment_id) ==
    append_to(root, para, <<RangeStart(comment_id), RangeEnd(comment_id), RefRun(comment_id)>>)

\* _apply_replies_as_docx_comments; the result is [root, croot]
RECURSIVE apply_replies(_, _, _, _)
apply_replies(root, croot, replies, next_id) ==
    IF replies = <<>> THEN [root |-> root, croot |-> croot]
    ELSE LET r == Head(replies)
             parent_id == first_matching_comment_id(croot, r.ids)
         IN  apply_replies(
                 attach_comment_reference(root, r.para, next_id),
                 [croot EXCEPT !.kids =
                     Append(croot.kids, make_comment_node(next_id, r.note, parent_id))],
                 Tail(replies), next_id + 1)

apply_replies_as_docx_comments(root, croot, replies) ==
    apply_replies(root, croot, replies, next_comment_id(croot))

\* finish writing every part that parses from its tree
finish_from_trees(pkg, root, parts, pending) ==
    LET done == IF pending # <<>> /\ parts # <<>>
                THEN apply_replies_as_docx_comments(root, parts[1].tree, pending)
                ELSE [root |-> root, croot |-> IF parts = <<>> THEN Body(<<>>) ELSE parts[1].tree]
        tree_of(nm) == IF parts # <<>> /\ nm = parts[1].name THEN done.croot
                       ELSE fromstring(read(pkg, nm))
    IN  [zip_ok |-> TRUE,
         entries |-> [k \in 1..Len(pkg.entries) |->
            LET nm == pkg.entries[k].name
            IN  IF nm = DocumentName THEN Entry(nm, tostring(done.root))
                ELSE IF Parses(read(pkg, nm)) THEN Entry(nm, tostring(tree_of(nm)))
                ELSE Entry(nm, read(pkg, nm))]]

\* finish without the test of comments_root: the replies are written to a
\* comment root of their own when no part parses
finish_without_part_test(pkg, root, parts, pending) ==
    LET done == IF pending # <<>>
                THEN apply_replies_as_docx_comments(root,
                         IF parts = <<>> THEN Elem("comments", 0, <<>>, NoId, <<>>)
                         ELSE parts[1].tree, pending)
                ELSE [root |-> root, croot |-> IF parts = <<>> THEN Body(<<>>) ELSE parts[1].tree]
        parsed == {parts[k].name : k \in 1..Len(parts)}
    IN  [zip_ok |-> TRUE,
         entries |-> [k \in 1..Len(pkg.entries) |->
            LET nm == pkg.entries[k].name
            IN  IF nm = DocumentName THEN Entry(nm, tostring(done.root))
                ELSE IF nm \in parsed
                THEN Entry(nm, tostring(IF nm = parts[1].name THEN done.croot
                                        ELSE (CHOOSE q \in Range(parts) : q.name = nm).tree))
                ELSE Entry(nm, read(pkg, nm))]]

\* finish leaving out the comment parts that did not parse
finish_parsed_only(pkg, root, parts, pending) ==
    LET done == IF pending # <<>> /\ parts # <<>>
                THEN apply_replies_as_docx_comments(root, parts[1].tree, pending)
                ELSE [root |-> root, croot |-> IF parts = <<>> THEN Body(<<>>) ELSE parts[1].tree]
        parsed == {parts[k].name : k \in 1..Len(parts)}
        kept == SelectSeq(pkg.entries, LAMBDA e : ~EditorCommentName(e.name) \/ e.name \in parsed)
    IN  [zip_ok |-> TRUE,
         entries |-> [k \in 1..Len(kept) |->
            LET nm == kept[k].name
            IN  IF nm = DocumentName THEN Entry(nm, tostring(done.root))
                ELSE IF nm \in parsed
                THEN Entry(nm, tostring(IF nm = parts[1].name THEN done.croot
                                        ELSE (CHOOSE q \in Range(parts) : q.name = nm).tree))
                ELSE Entry(nm, read(pkg, nm))]]

\* lines 178-195: the replies are written to comments_root when there is one,
\* then every entry of the input is written: the document from the tree, a
\* parsed comment part from its tree, anything else as read from the input
finish(pkg, root, parts, pending) ==
    LET done == IF pending # <<>> /\ parts # <<>>
                THEN apply_replies_as_docx_comments(root, parts[1].tree, pending)
                ELSE [root |-> root, croot |-> IF parts = <<>> THEN Body(<<>>) ELSE parts[1].tree]
        tree_of(nm) == IF nm = parts[1].name THEN done.croot
                       ELSE (CHOOSE q \in Range(parts) : q.name = nm).tree
        parsed == {parts[k].name : k \in 1..Len(parts)}
    IN  [zip_ok |-> TRUE,
         entries |-> [k \in 1..Len(pkg.entries) |->
            LET nm == pkg.entries[k].name
            IN  IF nm = DocumentName THEN Entry(nm, tostring(done.root))
                ELSE IF nm \in parsed THEN Entry(nm, tostring(tree_of(nm)))
                ELSE Entry(nm, read(pkg, nm))]]

\* ---------------------------------------------------------- the Extractor

\* corpus_parser._collect_comment_ids: marker ids of element.iter(), unique
parser_collect_comment_ids(n) == Dedup(collect_comment_ids(n))

RECURSIVE Size(_)
Size(n) == 1 + Len(Descendants(n))

Without(s, x) == SelectSeq(s, LAMBDA y : y # x)

\* the walk of _collect_active_comment_ids_by_element and of
\* _collect_comment_range_texts over seq = the descendants of the root in
\* document order: the active ids once the first k elements are passed
RECURSIVE ActiveAfter(_, _)
ActiveAfter(seq, k) ==
    IF k = 0 THEN <<>>
    ELSE LET a == ActiveAfter(seq, k - 1)
             x == seq[k]
         IN  IF x.tag = "commentRangeStart" /\ x.cid # NoId /\ x.cid \notin Range(a)
             THEN Append(a, x.cid)
             ELSE IF x.tag = "commentRangeEnd" /\ x.cid \in Range(a)
             THEN Without(a, x.cid)
             ELSE a

\* ActiveIds without the ranges opened before the element's own paragraph
ActiveIdsOfNone(seq, k) == <<>>

\* _collect_active_comment_ids_by_element, for the element at place k of seq:
\* the ids active when the walk meets it
ActiveIds(seq, k) == ActiveAfter(seq, k - 1)

\* _collect_comment_range_texts: per id, in the order the ids first get a
\* text, the stripped non-empty texts met while the id is active, joined by
\* blanks; each [cid, text]
comment_range_texts(root) ==
    LET seq == Descendants(root)
        hits == SelectSeq([k \in 1..Len(seq) |-> k], LAMBDA k :
                    /\ seq[k].tag \in {"t", "delText"}
                    /\ Strip(seq[k].text) # <<>>
                    /\ ActiveIds(seq, k) # <<>>)
        order == Dedup(FlattenSeq([h \in 1..Len(hits) |-> ActiveIds(seq, hits[h])]))
        parts(cid) == SelectSeq(hits, LAMBDA k : cid \in Range(ActiveIds(seq, k)))
        joined(cid) == FlattenSeq([h \in 1..Len(parts(cid)) |->
                          (IF h = 1 THEN <<>> ELSE <<" ">>) \o Strip(seq[parts(cid)[h]].text)])
    IN  [c \in 1..Len(order) |-> [cid |-> order[c], text |-> Strip(joined(order[c]))]]

\* lines 105-116: paragraph_rows, one per paragraph with a non-empty text
paragraph_rows(root) ==
    LET ps == SelectSeq(Paragraphs(root), LAMBDA p : Strip(collect_text(p)) # <<>>)
    IN  [k \in 1..Len(ps) |-> [text |-> Strip(collect_text(ps[k])),
                               comment_ids |-> parser_collect_comment_ids(ps[k])]]

\* "\n\n".join(texts)
RECURSIVE JoinParagraphs(_)
JoinParagraphs(texts) ==
    IF texts = <<>> THEN <<>>
    ELSE IF Len(texts) = 1 THEN texts[1]
    ELSE texts[1] \o <<NL, NL>> \o JoinParagraphs(Tail(texts))

Texts(rows) == [k \in 1..Len(rows) |-> rows[k].text]

\* line 117
raw_text_of(root) == Strip(JoinParagraphs(Texts(paragraph_rows(root))))

\* the cursor of lines 120-131 at row k: the offset at which row k starts
RECURSIVE RowStart(_, _)
RowStart(rows, k) ==
    IF k = 1 THEN 0 ELSE RowStart(rows, k - 1) + Len(rows[k - 1].text) + 2

AnchorPreview == 300
NoPos == 0 - 1

\* lines 119-131: comment_anchor_by_id, in insertion order, the first row
\* that carries an id giving its anchor; each [cid, anchor_text, position]
comment_anchors(rows) ==
    LET order == Dedup(FlattenSeq([k \in 1..Len(rows) |-> rows[k].comment_ids]))
        first(cid) == CHOOSE k \in 1..Len(rows) :
                         /\ cid \in Range(rows[k].comment_ids)
                         /\ \A j \in 1..(k - 1) : cid \notin Range(rows[j].comment_ids)
    IN  [c \in 1..Len(order) |->
            [cid |-> order[c],
             anchor_text |-> SubSeq(rows[first(order[c])].text, 1,
                                 Min2(AnchorPreview, Len(rows[first(order[c])].text))),
             position |-> RowStart(rows, first(order[c]))]]

Comment(cid, author, text, source, anchor_text, position) ==
    [id |-> cid, author |-> author, text |-> text, source |-> source,
     anchor_text |-> anchor_text, position |-> position]

PeopleName == "word/people.xml"

\* _parse_people_xml: the person elements that give an author to an id (the
\* text field of a person element holds its author attribute, cid its id
\* attribute); none when the part is absent or does not parse
parse_people_xml(p) ==
    IF PeopleName \notin Range(namelist(p)) THEN <<>>
    ELSE IF ~Parses(read(p, PeopleName)) THEN <<>>
    ELSE SelectSeq(Iter(fromstring(read(p, PeopleName))),
                   LAMBDA n : n.tag = "person" /\ n.cid # NoId /\ Strip(n.text) # <<>>)

\* people_by_id.get(ref): the last person of that id wins; <<>> for none
people_by_id(people, ref) ==
    LET hit == SelectSeq(people, LAMBDA n : n.cid = ref)
    IN  IF hit = <<>> THEN <<>> ELSE Strip(hit[Len(hit)].text)

\* _extract_comment_author: the comment's own author attribute, else the
\* person whose id is the comment's id attribute, else ""
extract_comment_author(comment, people) ==
    IF Strip(comment.text) # <<>> THEN Strip(comment.text)
    ELSE IF comment.cid # NoId THEN people_by_id(people, comment.cid)
    ELSE <<>>

AnchorOf(anchors, cid) ==
    LET hit == SelectSeq(anchors, LAMBDA a : a.cid = cid)
    IN  IF cid = NoId \/ hit = <<>> THEN [cid |-> cid, anchor_text |-> <<>>, position |-> NoPos]
        ELSE hit[1]

\* lines 136-164: the w:comment elements of the comment parts, part by part
\* in name order, up to the first part that does not parse
part_comments(p) ==
    LET names == SortNames(SelectSeq(namelist(p), ParserCommentName))
        bad == {k \in 1..Len(names) : ~Parses(read(p, names[k]))}
        upto == IF bad = {} THEN Len(names) ELSE (CHOOSE k \in bad : \A j \in bad : k <= j) - 1
    IN  [elems |-> FlattenSeq([k \in 1..upto |-> CommentsOf(fromstring(read(p, names[k])))]),
         failed |-> bad # {}]

\* the placeholder texts; the id they name is kept in the event or comment
PlaceholderText == <<"#">>
ParseFailureText == <<"!">>

\* comments_by_id[cid] as lines 144-145 and 184-185 leave it: the text of the
\* first comment of that id with a text, else the placeholder for an anchored
\* id, else nothing
comment_body(elems, anchors, cid) ==
    LET hit == SelectSeq(elems, LAMBDA c : c.cid = cid /\ collect_text(c) # <<>>)
    IN  IF cid # NoId /\ hit # <<>> THEN collect_text(hit[1])
        ELSE IF \E k \in 1..Len(anchors) : anchors[k].cid = cid THEN PlaceholderText
        ELSE <<>>

\* lines 133-198: the comments of the parts, the marker of a part that does
\* not parse, and one synthetic comment per anchored id that no comment has
listed_comments(p, rows) ==
    LET anchors == comment_anchors(rows)
        pc_ == part_comments(p)
        people == parse_people_xml(p)
        fromParts == [k \in 1..Len(pc_.elems) |->
                        Comment(pc_.elems[k].cid, extract_comment_author(pc_.elems[k], people),
                                collect_text(pc_.elems[k]), "comments",
                                AnchorOf(anchors, pc_.elems[k].cid).anchor_text,
                                AnchorOf(anchors, pc_.elems[k].cid).position)]
        marker == IF pc_.failed
                  THEN <<Comment(NoId, <<>>, ParseFailureText, "comments", <<>>, NoPos)>>
                  ELSE <<>>
        existing == {pc_.elems[k].cid : k \in 1..Len(pc_.elems)} \ {NoId}
        missing == SelectSeq(anchors, LAMBDA a : a.cid \notin existing)
    IN  fromParts \o marker
        \o [k \in 1..Len(missing) |->
               Comment(missing[k].cid, <<>>, comment_body(pc_.elems, anchors, missing[k].cid),
                       "comments_anchor", missing[k].anchor_text, missing[k].position)]

Event(type, text, comment_ids, comment_text, paragraph_text, node) ==
    [type |-> type, text |-> text, comment_ids |-> comment_ids,
     comment_text |-> comment_text, paragraph_text |-> paragraph_text, node |-> node,
     position |-> NoPos]

\* lines 215-218: the texts of the linked comments joined by blanks, or the
\* placeholder when the ids resolve to no text; <<>> for None
linked_comment_text(bodies) ==
    LET linked == SelectSeq(bodies, LAMBDA b : b # <<>>)
        joined == Strip(FlattenSeq([k \in 1..Len(linked) |->
                      (IF k = 1 THEN <<>> ELSE <<" ">>) \o linked[k]]))
    IN  IF joined # <<>> THEN joined
        ELSE IF bodies # <<>> THEN PlaceholderText
        ELSE <<>>

\* an event for every element, whatever its text
ReportedWhateverText(text) == TRUE

\* lines 207-208 and 234-235: `if not text: continue`
Reported(text) == text # <<>>

\* lines 200-257: per paragraph the events of its w:ins descendants with a
\* text, then of its w:del descendants with a text.  node is the identity of
\* the element the event was read from.
tracked_events(root, elems, anchors) ==
    LET body_of(cid) == comment_body(elems, anchors, cid)
        seq == Descendants(root)
        paraAt == SelectSeq([k \in 1..Len(seq) |-> k], LAMBDA k : seq[k].tag = "p")
        inside(k, tag) == SelectSeq([j \in 1..Len(seq) |-> j], LAMBDA j :
                              /\ k < j /\ j < k + Size(seq[k])
                              /\ seq[j].tag = tag)
        textOf(j) == IF seq[j].tag = "ins" THEN collect_text(seq[j])
                     ELSE collect_deleted_text(seq[j])
        idsOf(k, j) == Dedup(parser_collect_comment_ids(seq[k]) \o ActiveIds(seq, j)
                             \o parser_collect_comment_ids(seq[j]))
        event(k, j) ==
            Event(IF seq[j].tag = "ins" THEN "insertion" ELSE "deletion",
                  textOf(j), idsOf(k, j),
                  linked_comment_text([c \in 1..Len(idsOf(k, j)) |-> body_of(idsOf(k, j)[c])]),
                  collect_text(seq[k]), seq[j].id)
        ofPara(k) == LET js == SelectSeq(inside(k, "ins") \o inside(k, "del"),
                                   LAMBDA j : Reported(textOf(j)))
                     IN  [e \in 1..Len(js) |-> event(k, js[e])]
    IN  FlattenSeq([q \in 1..Len(paraAt) |-> ofPara(paraAt[q])])

\* lines 259-282: the fallback, one comment_range event per range with a text
range_events(root, elems, anchors) ==
    LET body_of(cid) == comment_body(elems, anchors, cid)
        rs == SelectSeq(comment_range_texts(root), LAMBDA r : JoinSplit(r.text) # <<>>)
    IN  [k \in 1..Len(rs) |->
            Event("comment_range", JoinSplit(rs[k].text), <<rs[k].cid>>,
                  IF Strip(body_of(rs[k].cid)) # <<>> THEN Strip(body_of(rs[k].cid))
                  ELSE PlaceholderText,
                  JoinSplit(rs[k].text), 0)]

\* lines 284-300: when there is no comment at all, one per id of the events
anchor_only_comments(events) ==
    LET ids == Dedup(FlattenSeq([k \in 1..Len(events) |-> events[k].comment_ids]))
    IN  [k \in 1..Len(ids) |-> Comment(ids[k], <<>>, PlaceholderText, "comments_anchor_only", <<>>, NoPos)]

\* str.find(needle, start): the first offset at or after start where needle
\* begins, -1 for none
Find(hay, needle, start) ==
    LET at == {k \in start..(Len(hay) - Len(needle)) :
                  SubSeq(hay, k + 1, k + Len(needle)) = needle}
    IN  IF at = {} THEN 0 - 1 ELSE CHOOSE k \in at : \A j \in at : k <= j

\* lines 548-551: the offset found from the cursor on, else anywhere
FoundAt(lowered, needle, cursor) ==
    IF Find(lowered, needle, cursor) >= 0 THEN Find(lowered, needle, cursor)
    ELSE Find(lowered, needle, 0)

\* the loop of lines 541-553 from the item at place k on
RECURSIVE AnnotateFrom(_, _, _, _)
Annotate(lowered, items, k, cursor, idx) ==
    IF idx < 0 THEN <<items[k]>> \o AnnotateFrom(lowered, items, k + 1, cursor)
    ELSE <<[items[k] EXCEPT !.position = idx]>>
         \o AnnotateFrom(lowered, items, k + 1,
                         idx + (IF Strip(items[k].text) = <<>> THEN 1
                                ELSE Len(Strip(items[k].text))))
AnnotateFrom(lowered, items, k, cursor) ==
    IF k > Len(items) THEN <<>>
    ELSE IF items[k].position # NoPos \/ Strip(items[k].text) = <<>>
    THEN <<items[k]>> \o AnnotateFrom(lowered, items, k + 1, cursor)
    ELSE Annotate(lowered, items, k, cursor,
                  FoundAt(lowered, Lower(Strip(items[k].text)), cursor))

\* _annotate_event_positions: a position for every event or comment that has
\* none and whose text is found in raw_text
annotate_event_positions(raw_text, items) ==
    IF raw_text = <<>> \/ items = <<>> THEN items
    ELSE AnnotateFrom(Lower(raw_text), items, 1, 0)

Parsed(status, parse_error, raw_text, events, comments) ==
    [parser_status |-> status, parse_error |-> parse_error, raw_text |-> raw_text,
     redline_events |-> events, comments |-> comments]

\* _parse_docx
parse_docx(p) ==
    IF ~p.zip_ok \/ DocumentName \notin Range(namelist(p))
    THEN Parsed("error", "Failed to open DOCX", <<>>, <<>>, <<>>)
    ELSE IF ~Parses(read(p, DocumentName))
    THEN Parsed("error", "Failed to parse DOCX XML", <<>>, <<>>, <<>>)
    ELSE LET r == fromstring(read(p, DocumentName))
             rows == paragraph_rows(r)
             elems == part_comments(p).elems
             tracked_ == tracked_events(r, elems, comment_anchors(rows))
             events == IF tracked_ # <<>> THEN tracked_
                       ELSE range_events(r, elems, comment_anchors(rows))
             listed == listed_comments(p, rows)
         IN  Parsed("ready", "", raw_text_of(r),
                    annotate_event_positions(raw_text_of(r), events),
                    annotate_event_positions(raw_text_of(r),
                        IF listed # <<>> THEN listed ELSE anchor_only_comments(events)))

SUPPORTED_EXTENSIONS == {".txt", ".md", ".docx", ".pdf", ".rtf"}

\* parse without the test of the extension
parse_any_extension(ext, p) == parse_docx(p)

\* CorpusParserService.parse, for the extensions it does not take and for
\* .docx
parse(ext, p) ==
    IF ext \notin SUPPORTED_EXTENSIONS
    THEN Parsed("unsupported", "Unsupported file extension", <<>>, <<>>, <<>>)
    ELSE parse_docx(p)

\* ------------------------------------------------- the whole operation

NoPackage == [zip_ok |-> FALSE, entries |-> <<>>]

Ids(elems) == [k \in 1..Len(elems) |-> elems[k].id]

\* OpenError without the test of the decision list
OpenErrorTakingNone(ext, p, ds) ==
    IF ext # ".docx" THEN "In-file redline updates are currently supported only for .docx"
    ELSE IF ~p.zip_ok THEN "Failed to read DOCX"
    ELSE IF DocumentName \notin Range(namelist(p)) THEN "Invalid DOCX: missing word/document.xml"
    ELSE IF ~Parses(read(p, DocumentName)) THEN "Failed to parse DOCX XML"
    ELSE ""

\* OpenError with the archive opened before the extension is looked at
OpenErrorOpeningFirst(ext, p, ds) ==
    IF ~p.zip_ok THEN "Failed to read DOCX"
    ELSE IF ext # ".docx" THEN "In-file redline updates are currently supported only for .docx"
    ELSE IF ds = <<>> THEN "No redline decisions provided"
    ELSE IF DocumentName \notin Range(namelist(p)) THEN "Invalid DOCX: missing word/document.xml"
    ELSE IF ~Parses(read(p, DocumentName)) THEN "Failed to parse DOCX XML"
    ELSE ""

\* what lines 32-58 raise, "" when they raise nothing
OpenError(ext, p, ds) ==
    IF ext # ".docx" THEN "In-file redline updates are currently supported only for .docx"
    ELSE IF ds = <<>> THEN "No redline decisions provided"
    ELSE IF ~p.zip_ok THEN "Failed to read DOCX"
    ELSE IF DocumentName \notin Range(namelist(p)) THEN "Invalid DOCX: missing word/document.xml"
    ELSE IF ~Parses(read(p, DocumentName)) THEN "Failed to parse DOCX XML"
    ELSE ""

\* the values computed once before the loop (lines 73-76 and 60-71)
EnvOf(p) ==
    LET r == fromstring(read(p, DocumentName))
    IN  [tracked |-> Ids(collect_tracked_nodes(r)),
         paras |-> Ids(Paragraphs(r)),
         spans |-> build_paragraph_spans(Paragraphs(r), 0),
         has_parts |-> comments_parts_of(p) # <<>>]

\* the loop of lines 78-176 over the decisions ds, from loop state st; a
\* raise ends it
RECURSIVE run_loop(_, _, _)
run_loop(st, env, ds) ==
    IF ds = <<>> \/ st.error THEN st
    ELSE run_loop(process_decision(st, env, Head(ds)), env, Tail(ds))

\* apply_decisions as a function of its arguments: [error, out]
apply_decisions(ext, p, ds) ==
    IF OpenError(ext, p, ds) # "" THEN [error |-> OpenError(ext, p, ds), out |-> NoPackage]
    ELSE LET st == run_loop([root |-> fromstring(read(p, DocumentName)), detached |-> <<>>,
                             pending |-> <<>>, error |-> FALSE], EnvOf(p), ds)
         IN  IF st.error THEN [error |-> "Unsupported action", out |-> NoPackage]
             ELSE [error |-> "", out |-> finish(p, st.root, comments_parts_of(p), st.pending)]

\* ------------------------------------------------------------- the state

VARIABLES
    file_ext,     \* Path(file_name).suffix.lower()
    pkg,          \* file_bytes, as a package
    decisions,    \* the decision list
    pc,           \* "call", "loop", "returned", "responded", "failed", "extracted"
    i,            \* the place of the next decision of the loop
    root,         \* the parsed document tree, mutated in place
    detached,     \* the tracked elements removed from the tree so far
    pending,      \* pending_replies
    tracked,      \* tracked_nodes (element ids), collected before the loop
    all_paragraphs, \* all_paragraphs (element ids), collected before the loop
    paragraph_spans,
    comments_parts,
    out,          \* the returned package
    error,        \* the message of the ValueError raised, "" for none
    summary,      \* the RedlineApplyResult of the route
    parsed,       \* the ParsedCorpusDocument the Extractor returned
    history       \* history variable: what each pass of the loop started from

vars == <<file_ext, pkg, decisions, pc, i, root, detached, pending, tracked,
          all_paragraphs, paragraph_spans, comments_parts, out, error, summary, parsed,
          history>>

NoSummary == [total_decisions |-> 0, applied_decisions |-> 0, skipped_decisions |-> 0]

Env == [tracked |-> tracked, paras |-> all_paragraphs, spans |-> paragraph_spans,
        has_parts |-> comments_parts # <<>>]

\* apply_decisions, lines 32-76: the checks, the parse, the collections
Open ==
    /\ pc = "call"
    /\ IF OpenError(file_ext, pkg, decisions) # ""
       THEN /\ pc' = "failed"
            /\ error' = OpenError(file_ext, pkg, decisions)
            /\ UNCHANGED <<root, tracked, all_paragraphs, paragraph_spans, comments_parts>>
       ELSE \E env \in {EnvOf(pkg)} :
                /\ pc' = "loop"
                /\ root' = fromstring(read(pkg, DocumentName))
                /\ tracked' = env.tracked
                /\ all_paragraphs' = env.paras
                /\ paragraph_spans' = env.spans
                /\ comments_parts' = comments_parts_of(pkg)
                /\ UNCHANGED error
    /\ UNCHANGED <<file_ext, pkg, decisions, i, detached, pending, out, summary, parsed,
                   history>>

Now == [root |-> root, detached |-> detached, pending |-> pending, error |-> FALSE]

\* what a pass of the loop started from: the loop state and the tracked
\* element its decision resolved to
Pass(st, node) ==
    [root |-> st.root, detached |-> st.detached, pending |-> st.pending, node |-> node]

\* apply_decisions, lines 78-176: one pass of the loop
Decide ==
    /\ pc = "loop"
    /\ i <= Len(decisions)
    /\ \E node \in {resolved_node(Now, Env, decisions[i])} :
       \E st \in {ProcessAt(Now, Env, decisions[i], node)} :
           /\ history' = Append(history, Pass(Now, node))
           /\ root' = st.root
           /\ detached' = st.detached
           /\ pending' = st.pending
           /\ IF st.error
              THEN pc' = "failed" /\ error' = "Unsupported action"
              ELSE pc' = "loop" /\ UNCHANGED error
    /\ i' = i + 1
    /\ UNCHANGED <<file_ext, pkg, decisions, tracked, all_paragraphs, paragraph_spans,
                   comments_parts, out, summary, parsed>>

\* apply_decisions, lines 178-195: the replies, the output package
Finish ==
    /\ pc = "loop"
    /\ i > Len(decisions)
    /\ out' = finish(pkg, root, comments_parts, pending)
    /\ pc' = "returned"
    /\ UNCHANGED <<file_ext, pkg, decisions, i, root, detached, pending, tracked,
                   all_paragraphs, paragraph_spans, comments_parts, error, summary, parsed,
                   history>>

Count(s, Test(_)) == Len(SelectSeq(s, Test))

\* strategy_redline_apply_upload, lines 1466-1472
summarize(ds) ==
    LET applied_count == Count(ds, LAMBDA d : d.source_type = "redline")
    IN  [total_decisions |-> Len(ds),
         applied_decisions |-> applied_count,
         skipped_decisions |-> Len(ds) - applied_count]

\* RedlineApplyDecision: the source types and actions the route lets through
Validated(d) ==
    /\ d.source_type \in {"redline", "comment"}
    /\ d.action \in Actions
    /\ d.source_index >= 0

Summarize ==
    /\ pc = "returned"
    /\ \A k \in 1..Len(decisions) : Validated(decisions[k])
    /\ summary' = summarize(decisions)
    /\ pc' = "responded"
    /\ UNCHANGED <<file_ext, pkg, decisions, i, root, detached, pending, tracked,
                   all_paragraphs, paragraph_spans, comments_parts, out, error, parsed,
                   history>>

NotParsed == Parsed("none", "", <<>>, <<>>, <<>>)

\* CorpusParserService.parse on the same file: a call of its own, that reads
\* the package and returns its view of it
Extract ==
    /\ pc = "call"
    /\ file_ext \notin (SUPPORTED_EXTENSIONS \ {".docx"})
    /\ parsed' = parse(file_ext, pkg)
    /\ pc' = "extracted"
    /\ UNCHANGED <<file_ext, pkg, decisions, i, root, detached, pending, tracked,
                   all_paragraphs, paragraph_spans, comments_parts, out, error, summary,
                   history>>

Next == Open \/ Decide \/ Finish \/ Summarize \/ Extract

\* -------------------------------------------------------------- the inputs

MaxParas == 2
MaxDecisions == 2

\* paragraph shapes; b is the paragraph's element id, its tracked elements
\* are b+1, b+2
PlainPara(b) == P(b, <<R(<<"b", "a">>)>>)
InsPara(b) ==
    P(b, <<R(<<"a", " ">>), RangeStart(1), Ins(b + 1, <<R(<<"a", "b">>)>>),
           RangeEnd(1), RefRun(1)>>)
MixedPara(b) ==
    P(b, <<R(<<"b">>), Del(b + 1, <<DelR(<<"b", "b">>)>>),
           Ins(b + 2, <<R(<<"a">>), R(<<"A", " ">>)>>)>>)
NestedPara(b) ==
    P(b, <<Ins(b + 1, <<R(<<"a", "b">>), Del(b + 2, <<DelR(<<"b", "a">>)>>)>>),
           R(<<" ", "a">>)>>)
OddPara(b) ==
    P(b, <<Ins(b + 1, <<>>), Del(b + 2, <<R(<<"a", "b">>)>>), R(<<"a", " ", " ", "b">>)>>)
RangePara(b) ==
    P(b, <<RangeStart(2), R(<<"b", "b">>), RangeEnd(2), RefRun(2)>>)
EmptyPara(b) == P(b, <<R(<<" ">>)>>)
\* a paragraph deleted as a whole, under a comment of its own
StruckPara(b) ==
    P(b, <<RangeStart(3), Del(b + 1, <<DelR(<<"a", "b">>)>>), RangeEnd(3), RefRun(3)>>)

\* a comment range over two runs
SplitPara(b) ==
    P(b, <<R(<<"a", " ">>), RangeStart(2), R(<<"b">>), R(<<"a">>), RangeEnd(2), RefRun(2)>>)
\* a comment range opened and left open, and the paragraph that closes it
\* after an insertion
OpenPara(b) == P(b, <<R(<<"b">>), RangeStart(3), R(<<"a", " ">>)>>)
ClosePara(b) == P(b, <<Ins(b + 1, <<R(<<"a", "b">>)>>), RangeEnd(3), R(<<"b">>)>>)
\* a deletion of a text that the body shows elsewhere
CutPara(b) == P(b, <<R(<<"b">>), Del(b + 1, <<DelR(<<"a">>)>>)>>)

Shapes ==
    {"plain", "ins", "mixed", "nested", "odd", "range", "empty", "struck", "split", "open",
     "close", "cut"}

Para(shape, b) ==
    CASE shape = "plain" -> PlainPara(b)
      [] shape = "ins" -> InsPara(b)
      [] shape = "mixed" -> MixedPara(b)
      [] shape = "nested" -> NestedPara(b)
      [] shape = "odd" -> OddPara(b)
      [] shape = "range" -> RangePara(b)
      [] shape = "struck" -> StruckPara(b)
      [] shape = "split" -> SplitPara(b)
      [] shape = "open" -> OpenPara(b)
      [] shape = "close" -> ClosePara(b)
      [] shape = "cut" -> CutPara(b)
      [] OTHER -> EmptyPara(b)

IdStep == 10

SeqsUpTo(S, n) == UNION {[1..k -> S] : k \in 0..n}

\* the document bodies: up to MaxParas paragraphs of the given shapes
Bodies(shapes) ==
    {Body([k \in 1..Len(q) |-> Para(q[k], IdStep * k)]) :
        q \in SeqsUpTo(shapes, MaxParas) \ {<<>>}}

CommentElem(cid, txt) == Elem("comment", 0, <<>>, cid, <<P(0, <<R(txt)>>)>>)
CommentsRoot(cs) == Elem("comments", 0, <<>>, NoId, cs)

Styles == Entry("word/styles.xml", Bytes("xml", "raw", Elem("styles", 0, <<>>, NoId, <<>>)))
Image == Entry("word/media/image1.png", Blob("png"))

MainComments ==
    Entry("word/comments.xml",
          Bytes("xml", "raw", CommentsRoot(<<CommentElem(1, <<"n", "o">>), CommentElem(2, <<"o">>)>>)))
SecondComments ==
    Entry("word/comments2.xml", Bytes("xml", "et", CommentsRoot(<<CommentElem(1, <<"o">>)>>)))
BrokenComments == Entry("word/comments.xml", Blob("junk"))
ExtendedComments ==
    Entry("word/commentsExtended.xml",
          Bytes("xml", "raw", Elem("commentsEx", 0, <<>>, NoId, <<>>)))

\* a comment part with one id twice and a comment without text
TwiceComments ==
    Entry("word/comments.xml",
          Bytes("xml", "raw", CommentsRoot(<<CommentElem(1, <<"n", "o">>), CommentElem(1, <<"o">>),
                                            CommentElem(2, <<>>)>>)))

\* a later comment part that holds larger ids than word/comments.xml
LateComments ==
    Entry("word/comments2.xml",
          Bytes("xml", "raw", CommentsRoot(<<CommentElem(3, <<"o">>), CommentElem(5, <<"n">>)>>)))
EmptyComments == Entry("word/comments.xml", Bytes("xml", "raw", CommentsRoot(<<>>)))

\* a comment without an anchor whose text is a text of the body
EchoComments ==
    Entry("word/comments.xml", Bytes("xml", "raw", CommentsRoot(<<CommentElem(4, <<"b", "a">>)>>)))

Person(pid, name) == Elem("person", 0, name, pid, <<>>)
People == Entry(PeopleName, Bytes("xml", "raw", Elem("people", 0, <<>>, NoId, <<Person(1, <<"p">>)>>)))
BrokenPeople == Entry(PeopleName, Blob("junk"))

\* the comment and people parts an extracted package may come with
ExtractSetups ==
    {<<>>, <<MainComments>>, <<SecondComments, MainComments>>, <<TwiceComments>>,
     <<BrokenComments>>, <<BrokenComments, SecondComments>>, <<MainComments, People>>,
     <<MainComments, BrokenPeople>>}

\* the comment parts a package may come with
CommentSetups ==
    {<<>>, <<MainComments>>, <<SecondComments, MainComments>>, <<BrokenComments>>,
     <<BrokenComments, ExtendedComments>>, <<MainComments, ExtendedComments>>}

Package(body, form, setup) ==
    [zip_ok |-> TRUE,
     entries |-> <<Styles, Entry(DocumentName, Bytes("xml", form, body))>> \o setup \o <<Image>>]

Decision(source_type, source_index, action) ==
    [source_type |-> source_type, source_index |-> source_index, action |-> action,
     has_position |-> FALSE, source_position |-> 0, source_comment_id |-> NoId,
     source_text |-> <<>>, source_context_text |-> <<>>, modified_text |-> <<>>,
     reply_comment |-> <<>>]

Note == <<"o", "k">>

\* accept and reject by index alone: place 0 is the insertion, place 1 the
\* deletion of the first paragraph of every body
EditDecisions ==
    {Decision("redline", ix, a) : ix \in 0..1, a \in {"accept", "reject"}}

\* modify of the deletion, with the modified texts that change what is written
ModifyDecisions ==
    {[Decision("redline", 1, "modify") EXCEPT !.modified_text = m] :
        m \in {<<>>, <<"z">>, <<" ">>, <<" ", "z">>}}

\* decisions that name their target by text: no match, a match, a near miss
TextDecisions ==
    {[Decision("redline", 0, "accept") EXCEPT !.source_text = <<"z", "z">>],
     [Decision("redline", 0, "accept") EXCEPT !.source_text = <<"a", "b">>],
     [Decision("redline", 5, "accept") EXCEPT !.source_text = <<"a", "z", "z">>]}

\* replies: on a redline or a comment, by index, comment id and position,
\* with and without a note
ReplyDecisions ==
    {[Decision("redline", 0, "reply") EXCEPT !.reply_comment = Note],
     [Decision("comment", 1, "reply") EXCEPT !.reply_comment = Note],
     [Decision("comment", 0, "reply") EXCEPT !.reply_comment = Note, !.source_comment_id = 1],
     [Decision("redline", 0, "reply") EXCEPT !.reply_comment = <<" ">>],
     [Decision("comment", 0, "reply") EXCEPT !.reply_comment = Note,
                                             !.has_position = TRUE, !.source_position = 900]}

\* a decision the route's schema rejects and the service still takes
StrayDecisions == {Decision("redline", 0, "other")}

Input(ext, p, ds) == [ext |-> ext, pkg |-> p, decisions |-> ds]

Lists(pool) == SeqsUpTo(pool, MaxDecisions)

StartsAt(inp) ==
    /\ file_ext = inp.ext
    /\ pkg = inp.pkg
    /\ decisions = inp.decisions
    /\ pc = "call"
    /\ i = 1
    /\ root = Body(<<>>)
    /\ detached = <<>>
    /\ pending = <<>>
    /\ tracked = <<>>
    /\ all_paragraphs = <<>>
    /\ paragraph_spans = <<>>
    /\ comments_parts = <<>>
    /\ out = NoPackage
    /\ error = ""
    /\ summary = NoSummary
    /\ parsed = NotParsed
    /\ history = <<>>

\* calls that fail before the loop: wrong extension, unreadable archive,
\* missing or unparseable document part
BrokenInputs ==
    {Input(ext, p, ds) :
        ext \in {".docx", ".doc"},
        p \in {NoPackage,
               [zip_ok |-> TRUE, entries |-> <<Styles, MainComments>>],
               [zip_ok |-> TRUE, entries |-> <<Entry(DocumentName, Blob("junk")), Styles>>],
               Package(Body(<<InsPara(IdStep)>>), "raw", <<MainComments>>)},
        ds \in {<<>>, <<Decision("redline", 0, "accept")>>}}

\* the packaging of every setup of comment parts, under an edit and replies
PackInputs ==
    {Input(".docx", Package(b, "raw", s), ds) :
        b \in Bodies({"ins", "plain"}), s \in CommentSetups,
        ds \in Lists({Decision("redline", 0, "accept"),
                      [Decision("redline", 0, "reply") EXCEPT !.reply_comment = Note],
                      [Decision("comment", 0, "reply") EXCEPT !.reply_comment = Note,
                                                              !.source_comment_id = 1]})}

\* accept and reject of the tracked elements of every body
EditInputs ==
    {Input(".docx", Package(b, "raw", <<MainComments>>), ds) :
        b \in Bodies({"mixed", "nested", "odd"}), ds \in Lists(EditDecisions)}

\* modify of the deletions of every body
ModifyInputs ==
    {Input(".docx", Package(b, "raw", <<MainComments>>), ds) :
        b \in Bodies({"mixed", "nested", "odd"}), ds \in Lists(ModifyDecisions)}

\* replies, with and without a comment part to write them to
ReplyInputs ==
    {Input(".docx", Package(b, "raw", s), ds) :
        b \in Bodies({"ins", "empty"}),
        s \in {<<>>, <<MainComments>>},
        ds \in Lists(ReplyDecisions)}

\* replies to a comment named by its id and to a redline; a batch may hold
\* the same reply twice
ThreadDecisions ==
    {[Decision("redline", 0, "reply") EXCEPT !.reply_comment = Note],
     [Decision("comment", 0, "reply") EXCEPT !.reply_comment = <<"z">>, !.source_comment_id = 1],
     [Decision("comment", 0, "reply") EXCEPT !.reply_comment = Note, !.source_comment_id = 5]}

ThreadInputs ==
    {Input(".docx", Package(b, "raw", s), ds) :
        b \in Bodies({"ins", "plain"}),
        s \in {<<MainComments>>, <<MainComments, LateComments>>, <<EmptyComments>>,
               <<SecondComments, MainComments>>},
        ds \in Lists(ThreadDecisions)}

\* extraction of bodies with comment ranges within and across paragraphs,
\* with and without tracked elements, with and without a comment part
RangeInputs ==
    {Input(".docx", Package(b, "raw", s), <<Decision("redline", 0, "accept")>>) :
        b \in Bodies({"plain", "ins", "range", "split", "open", "close", "cut", "odd"}),
        s \in {<<>>, <<MainComments>>, <<EchoComments>>}}

\* accept, reject and modify of one tracked element, decided once or twice,
\* with a reply note
TwiceDecisions ==
    {[Decision("redline", 0, "accept") EXCEPT !.reply_comment = Note],
     [Decision("redline", 0, "reject") EXCEPT !.reply_comment = Note],
     [Decision("redline", 0, "modify") EXCEPT !.reply_comment = Note, !.modified_text = <<"z">>],
     Decision("redline", 1, "accept")}

TwiceInputs ==
    {Input(".docx", Package(b, "raw", <<MainComments>>), ds) :
        b \in Bodies({"ins", "mixed"}), ds \in Lists(TwiceDecisions)}

\* decisions that carry a source_text, matching or not
TextInputs ==
    {Input(".docx", Package(b, "raw", <<MainComments>>), ds) :
        b \in Bodies({"ins", "mixed"}),
        ds \in Lists(TextDecisions \cup StrayDecisions \cup {Decision("redline", 0, "reject")})}

\* extraction of bodies with and without tracked elements, texts, comment
\* ranges, under every setup of comment and people
\* parts, and the decision that names a place of that extraction
ExtractInputs ==
    {Input(".docx", Package(b, "raw", s), ds) :
        b \in Bodies({"ins", "mixed", "odd", "struck", "empty"}), s \in ExtractSetups,
        ds \in {<<>>, <<Decision("redline", 0, "accept")>>, <<Decision("redline", 1, "accept")>>}}

\* one decision that names its node by place and by text: the text of a
\* node, a longer and a much longer text that holds it, a near miss, no match
ResolveTexts ==
    {<<>>, <<"a", "b">>, <<"a", "b", "b">>, <<"a", "b", "z", "z", "z", "z", "z">>,
     <<"a", "z", "z">>, <<"z", "z">>, <<" ">>}

ResolveInputs ==
    {Input(".docx", Package(b, "raw", <<MainComments>>),
           <<[Decision("redline", ix, "accept") EXCEPT !.source_text = t]>>) :
        b \in Bodies({"ins", "mixed", "odd"}), ix \in {0, 1, 5}, t \in ResolveTexts}

ReplyTo(source_type, source_index) ==
    [Decision(source_type, source_index, "reply") EXCEPT !.reply_comment = Note]

At(d, position) == [d EXCEPT !.has_position = TRUE, !.source_position = position]

\* one reply that names its paragraph by comment id, by a position inside,
\* near and far from the paragraphs, by text, by context text, by index
TargetDecisions ==
    {[ReplyTo("comment", 0) EXCEPT !.source_comment_id = 1],
     [At(ReplyTo("comment", 0), 1) EXCEPT !.source_comment_id = 7],
     At(ReplyTo("comment", 1), 3),
     At(ReplyTo("comment", 1), 900),
     [ReplyTo("comment", 1) EXCEPT !.source_text = <<"b", "a">>],
     [ReplyTo("comment", 0) EXCEPT !.source_context_text = <<"a", " ", "a", "b">>,
                                   !.source_text = <<"z", "z">>],
     ReplyTo("comment", 1),
     ReplyTo("redline", 0),
     [ReplyTo("redline", 0) EXCEPT !.source_text = <<"b", "a">>],
     At(ReplyTo("redline", 0), 900),
     ReplyTo("redline", 5),
     [ReplyTo("redline", 0) EXCEPT !.source_comment_id = 1]}

TargetInputs ==
    {Input(".docx", Package(b, "raw", <<MainComments>>), <<d>>) :
        b \in Bodies({"plain", "ins", "empty"}), d \in TargetDecisions}

InitPack == \E inp \in BrokenInputs \cup PackInputs : StartsAt(inp)
InitEdit == \E inp \in EditInputs : StartsAt(inp)
InitModify == \E inp \in ModifyInputs : StartsAt(inp)
InitReply == \E inp \in ReplyInputs : StartsAt(inp)
InitText == \E inp \in TextInputs : StartsAt(inp)
InitExtract == \E inp \in BrokenInputs \cup ExtractInputs : StartsAt(inp)
InitResolve == \E inp \in ResolveInputs : StartsAt(inp)
InitTarget == \E inp \in TargetInputs : StartsAt(inp)
InitThread == \E inp \in ThreadInputs : StartsAt(inp)
InitRange == \E inp \in RangeInputs : StartsAt(inp)
InitTwice == \E inp \in TwiceInputs : StartsAt(inp)
Init ==
    \/ InitPack \/ InitEdit \/ InitModify \/ InitReply \/ InitText \/ InitExtract
    \/ InitResolve \/ InitTarget \/ InitThread \/ InitRange \/ InitTwice

SpecPack == InitPack /\ [][Next]_vars
SpecEdit == InitEdit /\ [][Next]_vars
SpecModify == InitModify /\ [][Next]_vars
SpecReply == InitReply /\ [][Next]_vars
SpecText == InitText /\ [][Next]_vars
SpecExtract == InitExtract /\ [][Next]_vars
SpecResolve == InitResolve /\ [][Next]_vars
SpecTarget == InitTarget /\ [][Next]_vars
SpecThread == InitThread /\ [][Next]_vars
SpecRange == InitRange /\ [][Next]_vars
SpecTwice == InitTwice /\ [][Next]_vars
Spec == Init /\ [][Next]_vars

\* ------------------------------------------------------------ the claims

Done == pc \in {"returned", "responded"}
Stepped == pc \in {"loop", "returned", "responded"} /\ history # <<>>

\* the decision the loop took last, the loop state it started from, the
\* tracked element it resolved to
Prior == history[Len(history)]
Taken == decisions[Len(history)]
Target_ == Prior.node
TargetNode == Lookup(Prior.root, Prior.detached, Prior.node)

\* the last decision was a redline decision with this action that resolved
\* to a tracked element with this tag, still part of the document
JustDecided(tag, action) ==
    /\ Stepped
    /\ Taken.source_type = "redline"
    /\ Taken.action = action
    /\ Target_ # 0
    /\ Attached(Prior.root, Target_)
    /\ TargetNode.tag = tag

\* a package with the tree of its document part and what the Extractor
\* reads from it
Extraction(p) ==
    [tree |-> fromstring(read(p, DocumentName)),
     raw_text |-> parse_docx(p).raw_text,
     redline_events |-> parse_docx(p).redline_events]

\* the package apply_decisions returns when the loop ends here, re-extracted
OutputNow == IF Done THEN out ELSE finish(pkg, root, comments_parts, pending)
Reextracted == Extraction(OutputNow)

\* the w:t texts under n in document order, with x in the place of what the
\* element called id holds
RECURSIVE TextWith(_, _, _)
TextWith(n, id, x) ==
    IF id # 0 /\ n.id = id THEN x
    ELSE IF n.tag = "t" THEN n.text
    ELSE FlattenSeq([k \in 1..Len(n.kids) |-> TextWith(n.kids[k], id, x)])

\* the body text of tree r with x in the place of the element called id
ParagraphTextsWith(ps, id, x) == [k \in 1..Len(ps) |-> Strip(TextWith(ps[k], id, x))]

BodyTextWith(r, id, x) ==
    Strip(JoinParagraphs(SelectSeq(ParagraphTextsWith(Paragraphs(r), id, x),
                                   LAMBDA t : t # <<>>)))

\* the element called id is not in the output document and the extraction re
\* of the output reports no event for it
Gone(re, id) ==
    /\ ~Attached(re.tree, id)
    /\ \A e \in 1..Len(re.redline_events) : re.redline_events[e].node # id

\* the extraction re of the output has this body text
Reads(re, text) == re.raw_text = text

\* C1: after a successful apply_decisions the output has the entries of the
\* input, and every entry that is neither word/document.xml nor a comment
\* part (word/comments*.xml) holds the bytes it held in the input.
UnrelatedPartsCopied ==
    Done =>
        /\ namelist(out) = namelist(pkg)
        /\ \A k \in 1..Len(pkg.entries) :
              (pkg.entries[k].name # DocumentName /\ ~EditorCommentName(pkg.entries[k].name))
                  => out.entries[k].data = pkg.entries[k].data

UnrelatedPartsCopiedWitness ==
    /\ Done
    /\ pending # <<>>
    /\ \E k \in 1..Len(pkg.entries) :
          /\ pkg.entries[k].name = "word/styles.xml"
          /\ pkg.entries[k].data.form = "raw"
          /\ out.entries[k].data = pkg.entries[k].data
    /\ \E k \in 1..Len(pkg.entries) :
          /\ EditorCommentName(pkg.entries[k].name)
          /\ out.entries[k].data # pkg.entries[k].data

\* C2, as the specification states it: in the output a comment part differs
\* from the input only if it parsed and holds more comment entries than it
\* did; a comment part that received no entry holds the bytes of the input.
UntouchedCommentPartsUnchanged ==
    Done =>
        \A k \in 1..Len(pkg.entries) :
            EditorCommentName(pkg.entries[k].name) =>
                \/ out.entries[k].data = pkg.entries[k].data
                \/ /\ Parses(pkg.entries[k].data)
                   /\ Len(CommentsOf(fromstring(out.entries[k].data)))
                        > Len(CommentsOf(fromstring(pkg.entries[k].data)))

AcceptedInsertion(re, id, node) ==
    /\ Reads(re, raw_text_of(Prior.root))
    /\ Contains(re.raw_text, collect_text(node))
    /\ Gone(re, id)

\* C3: accept on a tracked insertion keeps the insertion's content where it
\* was and drops the wrapper: the re-extracted body text is the body text of
\* before, it contains the insertion's text, the element is no longer in the
\* document and no event is reported for it.
AcceptedInsertionStays ==
    JustDecided("ins", "accept") => AcceptedInsertion(Reextracted, Target_, TargetNode)

AcceptedInsertionStaysWitness ==
    /\ Done
    /\ JustDecided("ins", "accept")
    /\ collect_text(TargetNode) # <<>>
    /\ \E e \in 1..Len(parse_docx(pkg).redline_events) :
          parse_docx(pkg).redline_events[e].node = Target_

\* the element called id went with what it held, text took its place
Replaced(re, id, text) == Reads(re, BodyTextWith(Prior.root, id, text)) /\ Gone(re, id)

\* C4: reject on a tracked insertion drops the element with its content: the
\* re-extracted body text is the body text of before without what the
\* insertion held, the element is no longer in the document and no event is
\* reported for it.
RejectedInsertionGone ==
    JustDecided("ins", "reject") => Replaced(Reextracted, Target_, <<>>)

RejectedInsertionGoneWitness ==
    /\ Done
    /\ JustDecided("ins", "reject")
    /\ collect_text(TargetNode) # <<>>
    /\ Contains(raw_text_of(Prior.root), collect_text(TargetNode))
    /\ Reextracted.raw_text # raw_text_of(Prior.root)

Restored(re, id, deleted) == Replaced(re, id, deleted) /\ Contains(re.raw_text, deleted)

\* C5: on a tracked deletion, reject puts a plain run holding the deleted
\* text in the element's place, so the deleted text is in the re-extracted
\* body text; accept removes the element with its content, so the body text
\* is that of before without what the element held; either way the element
\* is no longer in the document and no event is reported for it.
DeletionRestoredOrRemoved ==
    /\ JustDecided("del", "reject") =>
          Restored(Reextracted, Target_, collect_deleted_text(TargetNode))
    /\ JustDecided("del", "accept") => Replaced(Reextracted, Target_, <<>>)

DeletionRestoredOrRemovedWitness ==
    /\ Done
    /\ JustDecided("del", "reject")
    /\ collect_deleted_text(TargetNode) # <<>>
    /\ Reextracted.raw_text # raw_text_of(Prior.root)

\* C6, as the specification states it: modify on a tracked deletion puts a
\* plain run holding modified_text in the element's place when modified_text
\* is not empty, and nothing when it is empty.
ModifiedDeletionDropsText ==
    JustDecided("del", "modify") =>
        Reads(Reextracted, BodyTextWith(Prior.root, Target_, Taken.modified_text))

\* C6, amended: modify on a tracked deletion puts in the element's place a
\* plain run holding modified_text stripped of surrounding whitespace; when
\* modified_text is empty the run holds the deleted text instead; when the
\* text chosen is empty after stripping nothing takes the element's place.
ModifiedDeletionReplaced ==
    JustDecided("del", "modify") =>
        Replaced(Reextracted, Target_,
                 Strip(IF Taken.modified_text # <<>> THEN Taken.modified_text
                       ELSE collect_deleted_text(TargetNode)))

ModifiedDeletionReplacedWitness ==
    /\ Done
    /\ JustDecided("del", "modify")
    /\ Taken.modified_text = <<>>
    /\ collect_deleted_text(TargetNode) # <<>>
    /\ Contains(Reextracted.raw_text, collect_deleted_text(TargetNode))
    /\ Reextracted.raw_text # raw_text_of(Prior.root)

\* the comment entries of all the comment parts of a package that parse
CommentEntries(p) ==
    FlattenSeq([k \in 1..Len(p.entries) |->
        IF EditorCommentName(p.entries[k].name) /\ Parses(p.entries[k].data)
        THEN CommentsOf(fromstring(p.entries[k].data))
        ELSE <<>>])

IsReply(d) == d.source_type \in {"redline", "comment"} /\ d.action = "reply"

AllReplies == \A k \in 1..Len(decisions) : IsReply(decisions[k])

\* C7, as the specification states it: every Reply decision adds exactly one
\* comment entry and the raw_text re-extracted from the output is that of the
\* input.
EveryReplyAddsOneComment ==
    (Done /\ AllReplies) =>
        /\ Len(CommentEntries(out)) = Len(CommentEntries(pkg)) + Len(decisions)
        /\ parse_docx(out).raw_text = parse_docx(pkg).raw_text

\* the Reply decision taken at step k has a note that is not blank and finds
\* a paragraph to attach the reply to
ReplyQueues(k) ==
    /\ Strip(decisions[k].reply_comment) # <<>>
    /\ reply_target(history[k], Env, decisions[k], history[k].node).para # 0

\* C7, amended: a Reply decision adds exactly one comment entry when the
\* package has a comment part that parses, the note is not blank and a
\* paragraph is found for the reply, and no entry otherwise; it never
\* changes the raw_text re-extracted from the output.
ReplyAddsOneWhereItCan ==
    (Done /\ AllReplies) =>
        /\ Len(CommentEntries(out)) =
              Len(CommentEntries(pkg))
              + (IF comments_parts_of(pkg) # <<>>
                 THEN Cardinality({k \in 1..Len(decisions) : ReplyQueues(k)})
                 ELSE 0)
        /\ parse_docx(out).raw_text = parse_docx(pkg).raw_text

ReplyAddsOneWhereItCanWitness ==
    /\ Done
    /\ AllReplies
    /\ Len(decisions) = 2
    /\ ReplyQueues(1)
    /\ ~ReplyQueues(2)
    /\ Len(CommentEntries(out)) = Len(CommentEntries(pkg)) + 1

\* the decision taken at step k names its target by a text that no tracked
\* node matches at the floor of the scan, and carries no reply note
Unresolvable(k) ==
    /\ decisions[k].source_type = "redline"
    /\ normalize_text(decisions[k].source_text) # <<>>
    /\ Strip(decisions[k].reply_comment) = <<>>
    /\ \A n \in 1..Len(tracked) :
          ~FracGE(ScoreOfText(NodeText(TrackedNodes(history[k], Env)[n]),
                              normalize_text(decisions[k].source_text)),
                  Pct(BestFloor))

Drop(s, k) == SubSeq(s, 1, k - 1) \o SubSeq(s, k + 1, Len(s))

Outcome == [error |-> error, out |-> out]

\* C8: a decision that resolves to no tracked node and carries no note is
\* passed over: the call ends as it ends for the list without that decision,
\* with the same error or the same output package; alone in its list it
\* leaves the document tree as parsed and adds no comment.
UnresolvableSkipped ==
    (Done \/ (pc = "failed" /\ error = "Unsupported action")) =>
        \A k \in 1..Len(history) :
            Unresolvable(k) =>
                IF Len(decisions) > 1
                THEN Outcome = apply_decisions(file_ext, pkg, Drop(decisions, k))
                ELSE /\ error = ""
                     /\ out = finish(pkg, fromstring(read(pkg, DocumentName)),
                                     comments_parts_of(pkg), <<>>)

UnresolvableSkippedWitness ==
    /\ Done
    /\ Len(decisions) = 2
    /\ Unresolvable(1)
    /\ decisions[1].source_index = 0
    /\ tracked # <<>>
    /\ detached # <<>>

\* C9, as the specification states it: for a batch of exactly one decision
\* whose source_text matches no tracked node at the floor, the summary
\* reports one skipped decision and no applied one.
SkippedDecisionCounted ==
    (pc = "responded" /\ Len(decisions) = 1 /\ Unresolvable(1)) =>
        /\ summary.total_decisions = 1
        /\ summary.skipped_decisions = 1
        /\ summary.applied_decisions = 0

Extracted == pc = "extracted" /\ parsed.parser_status = "ready"

DocumentBody == fromstring(read(pkg, DocumentName))

OfType(events, type) == SelectSeq(events, LAMBDA e : e.type = type)

\* the text an event of the element would carry
TrackedText(n) == IF n.tag = "ins" THEN collect_text(n) ELSE collect_deleted_text(n)

WithText(nodes) == SelectSeq(nodes, LAMBDA n : TrackedText(n) # <<>>)

\* the place, among the paragraphs ps of the body r, of the paragraph that
\* holds the element an event was read from
ParagraphPlace(r, ps, e) == CHOOSE k \in 1..Len(ps) : ps[k].id = find_ancestor(r, e.node, 0)

\* by paragraph and, within a paragraph, insertions before deletions
InExtractionOrder(r, events) ==
    \A a \in 1..Len(events) : \A b \in (a + 1)..Len(events) :
        /\ ParagraphPlace(r, Paragraphs(r), events[a]) <= ParagraphPlace(r, Paragraphs(r), events[b])
        /\ (/\ ParagraphPlace(r, Paragraphs(r), events[a]) = ParagraphPlace(r, Paragraphs(r), events[b])
            /\ events[a].type = "deletion") => events[b].type = "deletion"

AllReported(events, inserted, deleted) ==
    /\ Len(events) = Len(inserted) + Len(deleted)
    /\ Len(OfType(events, "insertion")) = Len(inserted)
    /\ Len(OfType(events, "deletion")) = Len(deleted)
    /\ {events[k].node : k \in 1..Len(events)} =
           {inserted[k].id : k \in 1..Len(inserted)} \cup {deleted[k].id : k \in 1..Len(deleted)}

\* C11, as stated: a body with N w:ins and M w:del elements extracts to N+M
\* events, N insertions and M deletions, by paragraph and insertions first.
EveryTrackedElementReported ==
    Extracted =>
        /\ AllReported(parsed.redline_events, FindAll(DocumentBody, "ins"),
                       FindAll(DocumentBody, "del"))
        /\ InExtractionOrder(DocumentBody, parsed.redline_events)

\* C11, amended: the events are those of the w:ins and w:del elements with a
\* non-empty text, one each, by paragraph and insertions first; a body none
\* of whose tracked elements has a text extracts to comment_range events only.
TrackedElementsWithTextReported ==
    Extracted =>
        IF WithText(FindAll(DocumentBody, "ins")) \o WithText(FindAll(DocumentBody, "del")) # <<>>
        THEN /\ AllReported(parsed.redline_events, WithText(FindAll(DocumentBody, "ins")),
                            WithText(FindAll(DocumentBody, "del")))
             /\ InExtractionOrder(DocumentBody, parsed.redline_events)
        ELSE OfType(parsed.redline_events, "comment_range") = parsed.redline_events

TrackedElementsWithTextReportedWitness ==
    /\ Extracted
    /\ Len(OfType(parsed.redline_events, "insertion")) >= 1
    /\ Len(OfType(parsed.redline_events, "deletion")) >= 2
    /\ Len(parsed.redline_events) < Len(FindAll(DocumentBody, "ins") \o FindAll(DocumentBody, "del"))

\* the insertion and deletion events among the events
TrackedEvents(events) == SelectSeq(events, LAMBDA e : e.type \in {"insertion", "deletion"})

EventNodes(events) == [k \in 1..Len(events) |-> events[k].node]

\* C12: the tracked nodes the Mutator collects are, place by place, the
\* elements the Extractor's insertion and deletion events of the same package
\* were read from, and a decision that carries only source_index = i acts on
\* the element of event i.
TrackedNodesMatchEvents ==
    (pc = "loop" /\ parse(file_ext, pkg).parser_status = "ready") =>
        /\ tracked = EventNodes(TrackedEvents(parse(file_ext, pkg).redline_events))
        /\ (/\ Stepped
            /\ Taken.source_type = "redline"
            /\ Taken.source_text = <<>>
            /\ Taken.source_index < Len(TrackedEvents(parse(file_ext, pkg).redline_events)))
           => Target_ = TrackedEvents(parse(file_ext, pkg).redline_events)[Taken.source_index + 1].node

\* ------------------------------------------------------ errors of the call

Called == pc \notin {"call", "extracted"}

\* what is wrong with the package, "" when the body part is there and parses
PackageFault(p) ==
    IF ~p.zip_ok THEN "Failed to read DOCX"
    ELSE IF DocumentName \notin Range(namelist(p)) THEN "Invalid DOCX: missing word/document.xml"
    ELSE IF ~Parses(read(p, DocumentName)) THEN "Failed to parse DOCX XML"
    ELSE ""

\* C13: apply_decisions fails with a descriptive error and returns no package
\* when the extension is not .docx (whatever the package: the extension is
\* looked at first), when the archive cannot be opened, when the body part is
\* missing and when the body part does not parse.
FatalInputsFail ==
    (Called /\ (file_ext # ".docx" \/ PackageFault(pkg) # "")) =>
        /\ pc = "failed"
        /\ out = NoPackage
        /\ error # ""
        /\ file_ext # ".docx" =>
               error = "In-file redline updates are currently supported only for .docx"
        /\ (file_ext = ".docx" /\ decisions # <<>>) => error = PackageFault(pkg)

FatalInputsFailWitness ==
    /\ pc = "failed"
    /\ file_ext = ".docx"
    /\ decisions # <<>>
    /\ pkg.zip_ok
    /\ DocumentName \in Range(namelist(pkg))
    /\ error = "Failed to parse DOCX XML"

\* the package without its comment and people parts
WithoutCommentParts(p) ==
    [p EXCEPT !.entries = SelectSeq(@, LAMBDA e : ~ParserCommentName(e.name) /\ e.name # PeopleName)]

\* what an event holds of the body alone
OfBody(events) ==
    [k \in 1..Len(events) |->
        [type |-> events[k].type, text |-> events[k].text, node |-> events[k].node,
         comment_ids |-> events[k].comment_ids, paragraph_text |-> events[k].paragraph_text]]

MalformedPart(p, name) == name \in Range(namelist(p)) /\ ~Parses(read(p, name))

\* C14: the Extractor returns in every case: unsupported for an extension it
\* does not take, error with a cause for an archive that cannot be opened or
\* a body that does not parse, and ready otherwise, then with the text and
\* the events of the body whatever the state of the comment and people parts.
ExtractorAlwaysReturns ==
    pc = "extracted" =>
        /\ parsed.parser_status \in {"unsupported", "error", "ready"}
        /\ parsed.parser_status # "ready" => parsed.parse_error # ""
        /\ parsed.parser_status = "unsupported" <=> file_ext \notin SUPPORTED_EXTENSIONS
        /\ parsed.parser_status = "error" <=> (file_ext = ".docx" /\ PackageFault(pkg) # "")
        /\ parsed.parser_status = "ready" =>
               /\ parsed.raw_text = parse_docx(WithoutCommentParts(pkg)).raw_text
               /\ OfBody(parsed.redline_events)
                      = OfBody(parse_docx(WithoutCommentParts(pkg)).redline_events)

ExtractorAlwaysReturnsWitness ==
    /\ pc = "extracted"
    /\ parsed.parser_status = "ready"
    /\ MalformedPart(pkg, "word/comments.xml")
    /\ Len(TrackedEvents(parsed.redline_events)) >= 2
    /\ parsed.raw_text # <<>>

ExtractorSurvivesPeopleWitness ==
    /\ pc = "extracted"
    /\ parsed.parser_status = "ready"
    /\ MalformedPart(pkg, PeopleName)
    /\ parsed.comments # <<>>

\* the comments that carry an id
Identified(comments) == SelectSeq(comments, LAMBDA c : c.id # NoId)

\* the comments of the comment parts of the package, part by part in name
\* order, as far as the parts parse
PartComments(p) == part_comments(p).elems

\* C15: no two comments of an extraction have the same id, and the comment
\* reported for an id is the first one of that id in the parts, by part name.
CommentIdsUnique ==
    Extracted =>
        /\ \A a \in 1..Len(parsed.comments) : \A b \in (a + 1)..Len(parsed.comments) :
               (parsed.comments[a].id # NoId) => parsed.comments[a].id # parsed.comments[b].id
        /\ \A a \in 1..Len(parsed.comments) :
               parsed.comments[a].source = "comments" /\ parsed.comments[a].id # NoId =>
                   parsed.comments[a].text =
                       collect_text(SelectSeq(PartComments(pkg),
                                              LAMBDA c : c.cid = parsed.comments[a].id)[1])

\* C16: every comment id an event lists is the id of a comment of the same
\* extraction.
EventCommentsListed ==
    Extracted =>
        \A k \in 1..Len(parsed.redline_events) :
            \A cid \in Range(parsed.redline_events[k].comment_ids) :
                \E c \in 1..Len(parsed.comments) : parsed.comments[c].id = cid

\* ------------------------------------------------------------- resolution

\* the tracked elements, as they are when the decision is taken
TrackedThen == [k \in 1..Len(tracked) |-> Lookup(Prior.root, Prior.detached, tracked[k])]

\* the similarity of a node's text to the text sought, raised to 0.92 when
\* one holds the other; a node without text has no score
SoughtScore(n, sought) ==
    IF NodeText(n) = <<>> THEN <<0, 1>>
    ELSE IF Contains(NodeText(n), sought) \/ Contains(sought, NodeText(n))
    THEN FracMax(similarity(NodeText(n), sought), <<92, 100>>)
    ELSE similarity(NodeText(n), sought)

InRange(nodes, index) == 0 <= index /\ index < Len(nodes)

\* target is what the claim says for nodes, the place index and the text sought
ResolvedAsStated(nodes, ids, index, sought, target) ==
    IF /\ InRange(nodes, index)
       /\ \/ sought = <<>>
          \/ FracGE(similarity(NodeText(nodes[index + 1]), sought), <<75, 100>>)
    THEN target = ids[index + 1]
    ELSE IF sought # <<>>
            /\ \E k \in 1..Len(nodes) : FracGE(SoughtScore(nodes[k], sought), <<45, 100>>)
    THEN \E k \in 1..Len(nodes) :
             /\ target = ids[k]
             /\ \A j \in 1..Len(nodes) :
                    FracGE(SoughtScore(nodes[k], sought), SoughtScore(nodes[j], sought))
    ELSE target = 0

\* C17: a redline decision resolves to the node at source_index when the
\* index is in range and no source_text is given or the node's text is 0.75
\* similar to it; otherwise, with a source_text, to the node of the best
\* score (0.92 for a substring) when that score is 0.45 or more; else to none.
ResolvesAsStated ==
    (Stepped /\ Taken.source_type = "redline") =>
        ResolvedAsStated(TrackedThen, tracked, Taken.source_index,
                         normalize_text(Taken.source_text), Target_)

\* the scan finds a node by the raise alone: the text sought holds the
\* node's text and is less than 0.45 similar to it
ResolvesAsStatedWitness ==
    /\ Stepped
    /\ Taken.source_type = "redline"
    /\ Target_ # 0
    /\ ~InRange(TrackedThen, Taken.source_index)
    /\ ~FracGE(similarity(NodeText(TargetNode), normalize_text(Taken.source_text)), <<45, 100>>)
    /\ \E k \in 1..Len(tracked) : NodeText(TrackedThen[k]) = <<>>

\* the paragraphs, as they are when the decision is taken
ParagraphsThen ==
    [k \in 1..Len(all_paragraphs) |-> Lookup(Prior.root, Prior.detached, all_paragraphs[k])]

\* the paragraph the reply of the decision just taken was queued for, 0 when
\* it queued none
RepliedTo ==
    IF Len(pending) > Len(Prior.pending) THEN pending[Len(pending)].para ELSE 0

\* the paragraph holding a comment-range marker of the decision's comment id
Marked(d) ==
    IF comments_parts # <<>> THEN find_paragraph_by_comment_id(Prior.root, d.source_comment_id)
    ELSE 0

\* steps (a) and (b): by the position, when one is given
Positioned(d) ==
    IF d.has_position /\ paragraph_spans # <<>>
    THEN ByPosition(paragraph_spans, d.source_position)
    ELSE 0

\* step (c): by the text, when no position is given
Matched(d, has_index) ==
    IF ~d.has_position /\ Target(d) # <<>>
    THEN ByText(ParagraphsThen, Target(d), has_index, d.source_index)
    ELSE 0

TakenReply == Stepped /\ IsReply(Taken) /\ Strip(Taken.reply_comment) # <<>>

\* target follows the stated priority; where the statement leaves the choice
\* open (several paragraphs match the text, the index is past the spans) any
\* target does
StatedPriority(d, target, marked, positioned, matched, matches, spans) ==
    IF marked # 0 THEN target = marked
    ELSE IF positioned # 0 THEN target = positioned
    ELSE IF matched # 0 THEN target = matched
    ELSE IF matches # <<>> THEN TRUE
    ELSE IF spans = <<>> THEN target = 0
    ELSE IF d.source_index < Len(spans) THEN target = spans[d.source_index + 1].para
    ELSE TRUE

\* C18, as stated: marker of source_comment_id, else (a) the span containing
\* the position, else (b) the nearest span within 200, else (c) without a
\* position the text match, else (d) the source_index-th paragraph span.
ReplyTargetByPriority ==
    TakenReply =>
        StatedPriority(Taken, RepliedTo, Marked(Taken), Positioned(Taken), Matched(Taken, FALSE),
                       IF Taken.has_position \/ Target(Taken) = <<>> THEN <<>>
                       ELSE Matches(ParagraphsThen, Target(Taken)),
                       paragraph_spans)

\* the last resorts as the two kinds of reply have them
LastResort(d, owner, spans) ==
    IF d.source_type = "comment"
    THEN IF ~d.has_position /\ spans # <<>>
         THEN spans[Clamp(0, Len(spans) - 1, d.source_index) + 1].para
         ELSE 0
    ELSE owner

AmendedPriority(d, target, marked, positioned, matched, last) ==
    IF marked # 0 THEN target = marked
    ELSE IF positioned # 0 THEN target = positioned
    ELSE IF matched # 0 THEN target = matched
    ELSE target = last

\* C18, amended: marker of source_comment_id, else (a), else (b), else (c)
\* without a position the text match (several matches: the source_index-th
\* for a comment source, none for a redline source), else for a comment
\* source without a position the source_index-th paragraph span (the index
\* brought into range), for a redline source the paragraph of the tracked
\* node the decision resolved to, else no paragraph.
ReplyTargetBySource ==
    TakenReply =>
        AmendedPriority(Taken, RepliedTo, Marked(Taken), Positioned(Taken),
                        Matched(Taken, Taken.source_type = "comment"),
                        LastResort(Taken, OwnerOf(Prior.root, Target_), paragraph_spans))

\* a reply on a comment that gives a position far from every paragraph is
\* queued nowhere, whatever its index
ReplyTargetBySourceWitness ==
    /\ TakenReply
    /\ Taken.source_type = "comment"
    /\ Taken.has_position
    /\ Len(paragraph_spans) > Taken.source_index
    /\ Marked(Taken) = 0
    /\ Positioned(Taken) = 0
    /\ RepliedTo = 0

\* a reply on a redline without position and text goes to the paragraph of
\* its node, which is not the paragraph span of that index
ReplyToNodeWitness ==
    /\ TakenReply
    /\ Taken.source_type = "redline"
    /\ Len(paragraph_spans) > Taken.source_index
    /\ RepliedTo # 0
    /\ RepliedTo = OwnerOf(Prior.root, Target_)
    /\ RepliedTo # paragraph_spans[Taken.source_index + 1].para

\* the comment entries the call wrote: in every comment part, those after
\* the entries the part had in the input, in the order of the part
NewEntries ==
    FlattenSeq([k \in 1..Len(out.entries) |->
        IF /\ EditorCommentName(out.entries[k].name)
           /\ Parses(out.entries[k].data) /\ Parses(pkg.entries[k].data)
        THEN SubSeq(CommentsOf(fromstring(out.entries[k].data)),
                    Len(CommentsOf(fromstring(pkg.entries[k].data))) + 1,
                    Len(CommentsOf(fromstring(out.entries[k].data))))
        ELSE <<>>])

EntryIds(entries) == {entries[k].cid : k \in 1..Len(entries)} \ {NoId}

\* the places in the batch of the replies that are queued, in order
QueuedPlaces == SelectSeq([k \in 1..Len(decisions) |-> k], ReplyQueues)

Replied == pc = "returned" /\ AllReplies /\ Len(out.entries) = Len(pkg.entries)

\* C19: the k replies of a batch get the ids m+1 .. m+k in decision order,
\* m being the largest comment id of the package (-1 without one), and every
\* reply is an entry of its own, two replies to one comment included.
ReplyIdsFollowPackageMax ==
    Replied =>
        LET m == Max0(EntryIds(CommentEntries(pkg)))
        IN  /\ Len(NewEntries) = Len(pending)
            /\ \A k \in 1..Len(NewEntries) :
                   /\ NewEntries[k].cid = m + k
                   /\ collect_text(NewEntries[k]) = Strip(decisions[QueuedPlaces[k]].reply_comment)

\* the source comment ids of the decision at place k of the batch
SourceIds(k) == reply_target(history[k], Env, decisions[k], history[k].node).ids

\* the ids of the comment part the replies are written to, as reply k finds
\* it: those of the input and those of the replies written before it
LiveIds(k) ==
    EntryIds(CommentsOf(comments_parts_of(pkg)[1].tree) \o SubSeq(NewEntries, 1, k - 1))

FirstAmong(ids, live) ==
    ids[CHOOSE j \in 1..Len(ids) : ids[j] \in live /\ \A h \in 1..(j - 1) : ids[h] \notin live]

\* C20: a reply written to the comment part records a parent-comment id
\* whenever one of its decision's source comment ids is in the live comment
\* part, and the id recorded is the first of these.
ReplyRecordsParent ==
    Replied =>
        \A k \in 1..Len(NewEntries) :
            (Range(SourceIds(QueuedPlaces[k])) \cap LiveIds(k) # {}) =>
                NewEntries[k].parent = FirstAmong(SourceIds(QueuedPlaces[k]), LiveIds(k))

\* the range markers and comment references under n
Markers(n) ==
    SelectSeq(Descendants(n), LAMBDA x :
        x.tag \in {"commentRangeStart", "commentRangeEnd", "commentReference"})

Returned == pc = "returned"

\* the decisions of the batch that are no replies, in order
EditsOnly == SelectSeq(decisions, LAMBDA d : ~IsReply(d))

\* the document the batch without its replies leaves: the input's when the
\* batch holds nothing else
DocumentOfEdits ==
    IF EditsOnly = <<>> THEN fromstring(read(pkg, DocumentName))
    ELSE fromstring(read(apply_decisions(file_ext, pkg, EditsOnly).out, DocumentName))

\* C21: when no comment part of the package parses, the replies of the
\* batch are dropped: the output has the entries of the input and no other,
\* no comment entry more, and its document is the one the other decisions of
\* the batch leave, which holds no range marker or comment reference more
\* than the input.
RepliesDroppedWithoutPart ==
    (Returned /\ comments_parts_of(pkg) = <<>>) =>
        /\ namelist(out) = namelist(pkg)
        /\ Len(CommentEntries(out)) = Len(CommentEntries(pkg))
        /\ \A k \in 1..Len(pkg.entries) :
               EditorCommentName(pkg.entries[k].name) =>
                   out.entries[k].data = pkg.entries[k].data
        /\ fromstring(read(out, DocumentName)) = DocumentOfEdits
        /\ Len(Markers(fromstring(read(out, DocumentName))))
              <= Len(Markers(fromstring(read(pkg, DocumentName))))

\* replies were queued, an edit changed the document, a comment part is
\* there and does not parse
RepliesDroppedWithoutPartWitness ==
    /\ Returned
    /\ comments_parts_of(pkg) = <<>>
    /\ \E k \in 1..Len(pkg.entries) : EditorCommentName(pkg.entries[k].name)
    /\ Len(pending) = 1
    /\ Len(decisions) = 2
    /\ fromstring(read(out, DocumentName)) # fromstring(read(pkg, DocumentName))
    /\ Markers(fromstring(read(out, DocumentName))) = Markers(fromstring(read(pkg, DocumentName)))

\* the loop state at batch start and the one the last decision started from
AtStart ==
    [root |-> fromstring(read(pkg, DocumentName)), detached |-> <<>>, pending |-> <<>>,
     error |-> FALSE]
Before ==
    [root |-> Prior.root, detached |-> Prior.detached, pending |-> Prior.pending,
     error |-> FALSE]

\* what decision d does from loop state st: the node and the paragraph it
\* resolves to, whether it changes the document, whether it queues a reply
EffectOf(st, d) ==
    [node |-> resolved_node(st, Env, d),
     para |-> reply_target(st, Env, d, resolved_node(st, Env, d)).para,
     edits |-> process_decision(st, Env, d).root # st.root,
     replies |-> Len(process_decision(st, Env, d).pending) > Len(st.pending)]

\* C22: what a decision does is what it would do as the first decision of
\* the batch: the same node and paragraph, its action applied or not and its
\* reply queued or not alike, whatever decisions precede it.
DecisionsIndependent ==
    Stepped => EffectOf(Before, Taken) = EffectOf(AtStart, Taken)

\* the text elements of the body that the comment range cid encloses, in
\* document order, and the text they hold together
EnclosedBy(seq, cid) ==
    SelectSeq([k \in 1..Len(seq) |-> k], LAMBDA k :
        seq[k].tag \in {"t", "delText"} /\ cid \in Range(ActiveIds(seq, k)))

EnclosedText(seq, cid) ==
    Strip(FlattenSeq([h \in 1..Len(EnclosedBy(seq, cid)) |-> seq[EnclosedBy(seq, cid)[h]].text]))

RangeIds(seq) ==
    {seq[k].cid : k \in {j \in 1..Len(seq) : seq[j].tag = "commentRangeStart"}} \ {NoId}

RangeEvents(events) == OfType(events, "comment_range")

\* C23: comment_range events are reported only when no insertion and no
\* deletion is: then there is exactly one per comment range that encloses a
\* text, with that text and the id of the range; no extraction holds both
\* kinds of events.
RangeEventsOnlyAlone ==
    Extracted =>
        LET seq == Descendants(DocumentBody)
            ranges == RangeEvents(parsed.redline_events)
        IN  /\ TrackedEvents(parsed.redline_events) # <<>> => ranges = <<>>
            /\ TrackedEvents(parsed.redline_events) = <<>> =>
                   /\ \A c \in RangeIds(seq) :
                          EnclosedText(seq, c) # <<>> =>
                              Cardinality({k \in 1..Len(ranges) :
                                              ranges[k].comment_ids = <<c>>}) = 1
                   /\ \A k \in 1..Len(ranges) :
                          /\ Len(ranges[k].comment_ids) = 1
                          /\ ranges[k].comment_ids[1] \in RangeIds(seq)
                          /\ ranges[k].text = EnclosedText(seq, ranges[k].comment_ids[1])

Positioned_(items) == SelectSeq(items, LAMBDA x : x.position # NoPos)

\* the place, among the paragraphs of the body, of the paragraph that holds
\* the tracked element the event was read from
PlaceOf(e) == ParagraphPlace(DocumentBody, Paragraphs(DocumentBody), e)

\* C24: of two events with a position, the one read from the earlier
\* paragraph never has the larger position, and every position is an offset
\* into raw_text.
PositionsFollowParagraphs ==
    Extracted =>
        LET evs == Positioned_(TrackedEvents(parsed.redline_events))
        IN  /\ \A a \in 1..Len(evs) : \A b \in 1..Len(evs) :
                   PlaceOf(evs[a]) < PlaceOf(evs[b]) => evs[a].position <= evs[b].position
            /\ \A k \in 1..Len(parsed.redline_events) :
                   parsed.redline_events[k].position # NoPos =>
                       /\ 0 <= parsed.redline_events[k].position
                       /\ parsed.redline_events[k].position <= Len(parsed.raw_text)

\* the places of the paragraphs of the body that hold a marker of comment cid
AnchorPlaces(ps, cid) ==
    {k \in 1..Len(ps) : cid # NoId /\ cid \in Range(collect_comment_ids(ps[k]))}

\* the offset in raw_text at which the text of the paragraph at place k starts
OffsetOf(ps, k) ==
    LET before == SelectSeq([j \in 1..(k - 1) |-> Strip(collect_text(ps[j]))],
                            LAMBDA t : t # <<>>)
    IN  IF before = <<>> THEN 0 ELSE Len(JoinParagraphs(before)) + 2

StartsWith(text, offset, part) == SubSeq(text, offset + 1, offset + Len(part)) = part

\* C25: the position of a comment, when it has one, is the offset of a
\* paragraph that holds its anchor, at which raw_text shows the text of that
\* paragraph; a comment without an anchor in the body has no position.
CommentPositionsAreAnchors ==
    Extracted =>
        LET ps == Paragraphs(DocumentBody)
        IN  \A c \in 1..Len(parsed.comments) :
                /\ parsed.comments[c].position # NoPos =>
                       \E k \in AnchorPlaces(ps, parsed.comments[c].id) :
                           /\ parsed.comments[c].position = OffsetOf(ps, k)
                           /\ StartsWith(parsed.raw_text, parsed.comments[c].position,
                                         Strip(collect_text(ps[k])))
                /\ AnchorPlaces(ps, parsed.comments[c].id) = {} =>
                       parsed.comments[c].position = NoPos

\* the ids of the comment ranges open at place k of seq: started before k
\* and not ended between their start and k
OpenAt(seq, k) ==
    {seq[j].cid : j \in {h \in 1..(k - 1) :
        /\ seq[h].tag = "commentRangeStart"
        /\ seq[h].cid # NoId
        /\ \A g \in (h + 1)..(k - 1) :
               ~(seq[g].tag = "commentRangeEnd" /\ seq[g].cid = seq[h].cid)}}

\* the places in seq of the tracked elements met while a range is open
MetInRange(seq) ==
    {k \in 1..Len(seq) : seq[k].tag \in {"ins", "del"} /\ OpenAt(seq, k) # {}}

EventsOf(events, node) == SelectSeq(events, LAMBDA e : e.node = node)

\* the event of the element at place k carries every id open there
CarriesOpenIds(seq, k) ==
    /\ Len(EventsOf(parsed.redline_events, seq[k].id)) = 1
    /\ OpenAt(seq, k) \subseteq Range(EventsOf(parsed.redline_events, seq[k].id)[1].comment_ids)

\* C26, as the specification states it: every insertion or deletion met
\* while a comment range is open yields an event that carries all the ids
\* open there.
TrackedInRangeCarryIds ==
    Extracted => \A k \in MetInRange(Descendants(DocumentBody)) :
                     CarriesOpenIds(Descendants(DocumentBody), k)

\* the scenario: a paragraph with one insertion under comment 1 and a plain
\* paragraph, comment 1 in the comment part
Scenario ==
    /\ Len(Paragraphs(DocumentBody)) = 2
    /\ Paragraphs(DocumentBody)[1] = InsPara(IdStep)
    /\ Paragraphs(DocumentBody)[2] = PlainPara(2 * IdStep)
    /\ MainComments \in Range(pkg.entries)

ScenarioExtracted ==
    /\ Len(parsed.redline_events) = 1
    /\ parsed.redline_events[1].type = "insertion"
    /\ parsed.redline_events[1].text = <<"a", "b">>
    /\ parsed.redline_events[1].comment_ids = <<1>>
    /\ parsed.redline_events[1].comment_text = <<"n", "o">>
    /\ \E c \in 1..Len(parsed.comments) :
           parsed.comments[c].id = 1 /\ parsed.comments[c].text = <<"n", "o">>

\* C26, amended: every insertion or deletion that has a text and is met
\* while a comment range is open yields one event, which carries all the ids
\* open there, also those of ranges opened in an earlier paragraph or around
\* other ranges; the scenario extracts as stated.
TrackedWithTextInRangeCarryIds ==
    Extracted =>
        /\ \A k \in MetInRange(Descendants(DocumentBody)) :
               TrackedText(Descendants(DocumentBody)[k]) # <<>> =>
                   CarriesOpenIds(Descendants(DocumentBody), k)
        /\ Scenario => ScenarioExtracted

\* an event carries two ids, one of a range that its own paragraph does not
\* open
TrackedWithTextInRangeCarryIdsWitness ==
    /\ Extracted
    /\ \E e \in 1..Len(parsed.redline_events) :
           /\ parsed.redline_events[e].node # 0
           /\ Len(parsed.redline_events[e].comment_ids) = 2
           /\ \E c \in Range(parsed.redline_events[e].comment_ids) :
                  c \notin Range(collect_comment_ids(
                      Paragraphs(DocumentBody)[PlaceOf(parsed.redline_events[e])]))

ScenarioWitness == Extracted /\ Scenario /\ ScenarioExtracted

Opened == pc \in {"loop", "returned", "responded"}

\* the places of the spans that hold this offset
Holding(spans, offset) ==
    {k \in 1..Len(spans) : spans[k].start <= offset /\ offset <= spans[k].end}

\* C27: the span of the k-th paragraph with a text starts where that
\* paragraph starts in the raw_text of the Extractor, so that this offset
\* lies in the span of that paragraph and of no other.
SpansStartWhereRowsStart ==
    Opened =>
        LET rows == paragraph_rows(DocumentBody)
        IN  /\ Len(paragraph_spans) = Len(rows)
            /\ \A k \in 1..Len(rows) :
                   /\ paragraph_spans[k].start = RowStart(rows, k)
                   /\ Holding(paragraph_spans, RowStart(rows, k)) = {k}

IsEdit(d) == d.source_type = "redline" /\ d.action \in {"accept", "modify", "reject"}

\* the decision taken last is an accept, modify or reject of a tracked node
\* that an accept, modify or reject taken before resolved to as well
DecidedAgain ==
    /\ history # <<>>
    /\ IsEdit(Taken)
    /\ Target_ # 0
    /\ \E j \in 1..(Len(history) - 1) : IsEdit(decisions[j]) /\ history[j].node = Target_

\* C28: of two accept, modify or reject decisions that resolve to one
\* tracked node only the first takes effect: the second leaves the document
\* as it was, queues no reply whatever its note and raises nothing.
SecondDecisionDoesNothing ==
    DecidedAgain =>
        /\ root = Prior.root
        /\ pending = Prior.pending
        /\ pc # "failed"
        /\ error = ""

\* the first decision changed the document, the second one carries a note
\* and the output holds the reply of the first alone
SecondDecisionDoesNothingWitness ==
    /\ DecidedAgain
    /\ Returned
    /\ Len(decisions) = 2
    /\ Strip(decisions[2].reply_comment) # <<>>
    /\ history[1].root # Prior.root
    /\ Len(pending) = 1
    /\ Len(CommentEntries(out)) = Len(CommentEntries(pkg)) + 1

\* the comment ids that the markers and references of the input's body carry
MarkerIds ==
    {Markers(AtStart.root)[k].cid : k \in 1..Len(Markers(AtStart.root))} \ {NoId}

\* C29: the id of every reply comment written is new to the package: no
\* comment of any comment part of the input has it, no range marker or comment
\* reference of the input's body carries it, and no other reply of the batch
\* got it.
ReplyIdsAreFresh ==
    Returned =>
        /\ \A k \in 1..Len(NewEntries) :
               /\ NewEntries[k].cid \notin EntryIds(CommentEntries(pkg))
               /\ NewEntries[k].cid \notin MarkerIds
        /\ \A j, k \in 1..Len(NewEntries) :
               NewEntries[j].cid = NewEntries[k].cid => j = k

\* the ids are new to the comment part the replies are written to
ReplyIdsAreFreshInPart ==
    Returned /\ comments_parts_of(pkg) # <<>> =>
        /\ \A k \in 1..Len(NewEntries) :
               NewEntries[k].cid \notin EntryIds(CommentsOf(comments_parts_of(pkg)[1].tree))
        /\ \A j, k \in 1..Len(NewEntries) :
               NewEntries[j].cid = NewEntries[k].cid => j = k

\* C30: the output package has the entries of the input and no other: the
\* same names in the same order, every name once; no batch of decisions adds
\* an entry or removes one.
EntriesKept ==
    Returned =>
        /\ Len(out.entries) = Len(pkg.entries)
        /\ \A k \in 1..Len(pkg.entries) : out.entries[k].name = pkg.entries[k].name
        /\ \A j, k \in 1..Len(out.entries) :
               out.entries[j].name = out.entries[k].name => j = k

\* a batch that changed the document and queued a reply, on a package with a
\* comment part that does not parse next to one that does not hold comments
EntriesKeptWitness ==
    /\ Returned
    /\ pending # <<>>
    /\ read(out, DocumentName).tree # read(pkg, DocumentName).tree
    /\ Len(out.entries) = 5
    /\ \E k \in 1..Len(pkg.entries) :
           /\ EditorCommentName(pkg.entries[k].name)
           /\ ~Parses(pkg.entries[k].data)
           /\ out.entries[k] = pkg.entries[k]

====
